---------------------------- MODULE Spec2Model ----------------------------
(***************************************************************************)
(* A model of page-integrity-js: the script trust-decision engine          *)
(* (utils/script-blocker.ts), the content-addressed cache                  *)
(* (utils/cache-manager.ts), the content analyzer (utils/script-analyzer), *)
(* the URL-centric DOM blocker (script-blocking.ts, host-set variant) and  *)
(* the PageIntegrity facade with its global interception hooks (index.ts,  *)
(* utils/script-interceptor.ts).                                           *)
(*                                                                         *)
(* Strings that the code inspects (urls, list patterns) are sequences of   *)
(* one-character strings, so that includes() and endsWith() are computed.  *)
(* A script text is a sequence of fragments; each fragment stands for a    *)
(* piece of source text that matches exactly one analyzer pattern (or      *)
(* none), and is hashed through its one-byte code.                         *)
(***************************************************************************)
EXTENDS Integers, Sequences, FiniteSets, TLC

VARIABLES
    config,          \* ScriptBlocker.config of the decision engine
    blockedScripts,  \* ScriptBlocker.blockedScripts: url -> BlockedScript
    store,           \* the named Cache store, in key-enumeration order
    last,            \* what the last engine-side operation did and returned
    decided,         \* history: the urls decided since the map was last cleared
    putLog,          \* hashes passed to cacheResponse since the store was empty
    domConfig,       \* URL-centric ScriptBlocker: config and the two host sets
    isPatched,       \* URL-centric ScriptBlocker.isPatched
    script,          \* the script element: src, textContent, marker, in the DOM
    domLast,         \* what the last DOM operation did and returned
    piSupplied,      \* the configuration object handed to new PageIntegrity()
    piConfig,        \* PageIntegrity.config
    blockers,        \* every ScriptBlocker PageIntegrity has built (their config)
    running,         \* ScriptInterceptor._isRunning, one per interceptor built
    current,         \* index of PageIntegrity.scriptBlocker / .scriptInterceptor
    globals,         \* window.eval, Function, ...: the stack of hooks wrapping each
    piLast,          \* what the last PageIntegrity-side operation did
    channel,         \* the service worker's controller and the messages in flight
    evals,           \* the eval calls the worker-backed hook has taken
    monitor,         \* the mutation monitor: config, origins, registry, updates
    held,            \* the container host code got from the last accessor call
    monLast,         \* what the last monitor-side operation did and returned
    anLast,          \* the last analyzeScript call and what it returned
    writers,         \* each cacheResponse caller: where its call stands, its hash, the keys it read
    handledRequests, \* RequestHandler.handledRequests: the Request objects marked
    fetches,         \* the handleFetch calls made so far, each with where it stands
    observed,        \* history: the scripts handed to registerScript, in order
    inflight,        \* the hooks' shouldBlockScript calls and where each stands
    functions,       \* what each Function-constructor call built, and its calls
    reportedUrls,    \* history: the urls reported as unknown-origin so far
    mutationMonitor, \* MutationMonitor: config, observer, observers created
    mmLast           \* what the last MutationMonitor call was

engineVars == <<config, blockedScripts, store, last, decided>>
cacheVars  == <<putLog>>
domVars    == <<domConfig, isPatched, script, domLast>>
piVars     == <<piSupplied, piConfig, blockers, running, current, globals, piLast>>
msgVars    == <<channel, evals>>
monVars    == <<monitor, held, monLast>>
anVars     == <<anLast>>
wrVars     == <<writers>>
fhVars     == <<handledRequests, fetches>>
regVars    == <<observed>>
callVars   == <<inflight, functions>>
repVars    == <<reportedUrls>>
mmVars     == <<mutationMonitor, mmLast>>
vars       == <<config, blockedScripts, store, last, decided, putLog,
                domConfig, isPatched, script, domLast,
                piSupplied, piConfig, blockers, running, current, globals, piLast,
                channel, evals, monitor, held, monLast,
                anLast,
                writers,
                handledRequests, fetches,
                observed,
                inflight, functions,
                reportedUrls,
                mutationMonitor, mmLast>>

\* what the actions of one part leave alone
beyondEngine == <<cacheVars, domVars, piVars, msgVars, monVars, anVars, wrVars,
                  fhVars, regVars, callVars, repVars, mmVars>>
beyondCache  == <<domVars, piVars, msgVars, monVars, anVars, wrVars,
                  fhVars, regVars, callVars, repVars, mmVars>>
beyondDom    == <<engineVars, cacheVars, piVars, msgVars, monVars, anVars, wrVars,
                  fhVars, regVars, callVars, repVars, mmVars>>
beyondPi     == <<engineVars, cacheVars, domVars, msgVars, monVars, anVars, wrVars,
                  fhVars, regVars, callVars, repVars, mmVars>>
beyondMsg    == <<engineVars, cacheVars, domVars, piVars, monVars, anVars, wrVars,
                  fhVars, regVars, callVars, repVars, mmVars>>
beyondMon    == <<engineVars, cacheVars, domVars, piVars, msgVars, anVars, wrVars,
                  fhVars, regVars, callVars, repVars, mmVars>>
beyondAn     == <<engineVars, cacheVars, domVars, piVars, msgVars, monVars, wrVars,
                  fhVars, regVars, callVars, repVars, mmVars>>
\* the cacheResponse callers and the handleFetch calls write the store of the
\* engine group
beyondWr     == <<config, blockedScripts, last, decided, cacheVars, domVars, piVars, msgVars,
                  monVars, anVars, fhVars, regVars, callVars, repVars, mmVars>>
beyondFh     == <<config, blockedScripts, last, decided, cacheVars, domVars, piVars, msgVars,
                  monVars, anVars, wrVars, regVars, callVars, repVars, mmVars>>
\* registering an observed script writes the monitor as well
beyondReg    == <<engineVars, cacheVars, domVars, piVars, msgVars, anVars,
                  wrVars, fhVars, callVars, repVars, mmVars>>
\* the hooks' engine calls write the blocked-script map of the engine group
beyondCall   == <<config, store, last, decided, cacheVars, domVars, piVars, msgVars,
                  monVars, anVars, wrVars, fhVars, regVars, repVars, mmVars>>
\* a pass through checkAndBlockScript writes the element as well
beyondRep    == <<engineVars, cacheVars, piVars, msgVars, monVars, anVars,
                  wrVars, fhVars, regVars, callVars, mmVars>>
beyondMm     == <<engineVars, cacheVars, domVars, piVars, msgVars, monVars, anVars,
                  wrVars, fhVars, regVars, callVars, repVars>>

-----------------------------------------------------------------------------
(* Bounds of the model *)

\* CacheManager.maxSize (a constructor argument; the default is 2500)
maxSize == 2
\* engine-side operations explored from the initial state
MaxOps == 3
\* cacheResponse calls logged from an empty store
MaxPuts == 4
\* cacheResponse calls the page and the worker start between them
MaxCalls == 4
\* handleFetch calls made on the worker's RequestHandler
MaxFetches == 2
\* script elements in the markup assigned to innerHTML
MaxMarkup == 2
\* operations explored on one PageIntegrity after its construction
MaxPiOps == 2
\* passes of one script element through checkAndBlockScript
MaxPasses == 3
\* scripts the monitor observes in one run
MaxObserved == 3
\* shouldBlockScript calls the hooks start in one run
MaxInflight == 2
\* MutationObservers one MutationMonitor creates in one run
MaxObservers == 3
\* eval calls taken by the worker-backed hook
MaxEvals == 2
\* script registrations counted by the monitor's loadOrder
MaxScripts == 2
\* MutationInfo entries in the monitor's arrays, and entries of a held copy
MaxUpdates == 2

-----------------------------------------------------------------------------
(* Strings *)

\* String.prototype.includes
Includes(s, p) ==
    \E i \in 1..(Len(s) - Len(p) + 1) : SubSeq(s, i, i + Len(p) - 1) = p

\* String.prototype.endsWith
EndsWith(s, p) ==
    /\ Len(p) <= Len(s)
    /\ SubSeq(s, Len(s) - Len(p) + 1, Len(s)) = p

\* patterns.some(pattern => url.includes(pattern)); an absent list is falsy
SomePatternIncluded(url, patterns) == \E p \in patterns : Includes(url, p)

-----------------------------------------------------------------------------
(* Content hash: utils/hash.ts *)

\* A 32-bit integer is kept as its two 16-bit halves (two's complement), so
\* that the arithmetic wraps exactly as ((hash << 5) - hash) + data[i]
\* followed by hash & hash does.
Half == 65536

\* one round of the loop: (hash * 31 + byte) modulo 2^32
HashStep(h, byte) ==
    LET lo == 31 * h.lo + byte
    IN  [hi |-> (31 * h.hi + (lo \div Half)) % Half, lo |-> lo % Half]

RECURSIVE HashLoop(_, _, _)
HashLoop(data, i, hash) ==
    IF i > Len(data) THEN hash
    ELSE HashLoop(data, i + 1, HashStep(hash, data[i]))

HexDigits == <<"0", "1", "2", "3", "4", "5", "6", "7",
               "8", "9", "a", "b", "c", "d", "e", "f">>

RECURSIVE HexNat(_)
HexNat(n) ==
    IF n < 16 THEN <<HexDigits[n + 1]>>
    ELSE Append(HexNat(n \div 16), HexDigits[(n % 16) + 1])

\* the four hexadecimal digits of a low half that follows a non-zero high half
Hex4(n) ==
    <<HexDigits[(n \div 4096) + 1], HexDigits[((n \div 256) % 16) + 1],
      HexDigits[((n \div 16) % 16) + 1], HexDigits[(n % 16) + 1]>>

HexMagnitude(hi, lo) == IF hi = 0 THEN HexNat(lo) ELSE HexNat(hi) \o Hex4(lo)

\* Number.prototype.toString(16) of the signed value of the two halves
ToString16(h) ==
    IF h.hi >= Half \div 2
    THEN <<"-">> \o HexMagnitude((Half - 1) - h.hi + (IF h.lo = 0 THEN 1 ELSE 0),
                                 (Half - h.lo) % Half)
    ELSE HexMagnitude(h.hi, h.lo)

createHash(text) == ToString16(HashLoop(text, 1, [hi |-> 0, lo |-> 0]))

-----------------------------------------------------------------------------
(* Content analyzer: utils/script-analyzer.ts *)

\* MALICIOUS_PATTERNS in Object.entries order: pattern number -> category
MALICIOUS_PATTERNS ==
    <<"evasion", "evasion", "evasion", "evasion", "evasion",
      "covertExecution", "covertExecution", "covertExecution",
      "covertExecution", "covertExecution", "covertExecution",
      "securityBypass", "securityBypass", "securityBypass", "securityBypass",
      "securityBypass", "securityBypass", "securityBypass",
      "maliciousIntent", "maliciousIntent", "maliciousIntent",
      "maliciousIntent", "maliciousIntent", "maliciousIntent">>

\* the four maliciousPatterns of detectSuspiciousStrings, numbered after them
SuspiciousPatterns == 25..28

\* content.match(pattern): some fragment of the text matches the pattern
Match(content, pattern) == \E i \in 1..Len(content) : content[i] = pattern

\* the switch on the category inside the pattern loop
CategoryScore(category) ==
    CASE category = "evasion"         -> 3
      [] category = "covertExecution" -> 3
      [] category = "securityBypass"  -> 2
      [] category = "maliciousIntent" -> 2

\* the nested loop over categories and patterns: threats and score so far
RECURSIVE PatternLoop(_, _, _, _)
PatternLoop(content, p, threats, score) ==
    IF p > Len(MALICIOUS_PATTERNS) THEN [threats |-> threats, score |-> score]
    ELSE IF Match(content, p)
         THEN PatternLoop(content, p + 1,
                          Append(threats, MALICIOUS_PATTERNS[p]),
                          score + CategoryScore(MALICIOUS_PATTERNS[p]))
         ELSE PatternLoop(content, p + 1, threats, score)

ThreatsInclude(threats, category) ==
    \E i \in 1..Len(threats) : threats[i] = category

detectSuspiciousStrings(content) ==
    {p \in SuspiciousPatterns : Match(content, p)}

DEFAULT_ANALYSIS_CONFIG ==
    [minScore |-> 3, maxThreats |-> 2, checkSuspiciousStrings |-> TRUE]

analyzeScript(content, analysisConfig) ==
    LET loop  == PatternLoop(content, 1, <<>>, 0)
        combo == /\ ThreatsInclude(loop.threats, "evasion")
                 /\ \/ ThreatsInclude(loop.threats, "covertExecution")
                    \/ ThreatsInclude(loop.threats, "securityBypass")
        score1 == IF combo THEN loop.score + 2 ELSE loop.score
        suspiciousStrings ==
            IF analysisConfig.checkSuspiciousStrings
            THEN detectSuspiciousStrings(content) ELSE {}
        found == Cardinality(suspiciousStrings) > 0
    IN  [present |-> TRUE,
         threats |-> IF found THEN Append(loop.threats, "suspicious-strings")
                     ELSE loop.threats,
         score   |-> IF found THEN score1 + Cardinality(suspiciousStrings)
                     ELSE score1]

\* no analysis: the field is absent from the object
NoAnalysis == [present |-> FALSE, threats |-> <<>>, score |-> 0]

-----------------------------------------------------------------------------
(* Content-addressed cache: utils/cache-manager.ts over the Cache API *)

\* cache.keys(): the keys in the store's enumeration (insertion) order
CacheKeys(st) == [i \in 1..Len(st) |-> st[i].key]

\* cache.delete(key)
CacheDelete(st, key) == SelectSeq(st, LAMBDA e : e.key # key)

\* cache.put(key, response): an entry under the same key is replaced and the
\* new pair goes to the end of the enumeration order
CachePut(st, entry) == Append(CacheDelete(st, entry.key), entry)

\* responseData = analysis ? { url, analysis } : { url }
CacheEntry(hash, url, analysis) ==
    [key |-> hash, url |-> url, analysis |-> analysis]

\* cacheResponse that evicts the newest key instead of the oldest
cacheResponseEvictNewest(st, hash, url, analysis) ==
    LET put  == CachePut(st, CacheEntry(hash, url, analysis))
        keys == CacheKeys(put)
    IN  IF Len(keys) > maxSize THEN CacheDelete(put, keys[Len(keys)]) ELSE put

\* CacheManager.cacheResponse, run to completion
cacheResponse(st, hash, url, analysis) ==
    LET put  == CachePut(st, CacheEntry(hash, url, analysis))
        keys == CacheKeys(put)
    IN  IF Len(keys) > maxSize THEN CacheDelete(put, keys[1]) ELSE put

\* CacheManager.getCachedResponse: the parsed entry, or null
getCachedResponse(st, hash) ==
    IF \E i \in 1..Len(st) : st[i].key = hash
    THEN LET i == CHOOSE j \in 1..Len(st) : st[j].key = hash
         IN  [found |-> TRUE, url |-> st[i].url, analysis |-> st[i].analysis]
    ELSE [found |-> FALSE, url |-> <<>>, analysis |-> NoAnalysis]

\* CacheManager.clearCache: caches.delete(cacheName)
clearCache(st) == <<>>

-----------------------------------------------------------------------------
(* Configuration objects: records whose optional fields may be absent *)

Has(obj, field) == field \in DOMAIN obj

\* obj.field ?? fallback
OrElse(obj, field, fallback) == IF Has(obj, field) THEN obj[field] ELSE fallback

\* new ScriptBlocker(cacheManager, config):
\* { ...config, analysisConfig: config.analysisConfig ?? DEFAULT_ANALYSIS_CONFIG }
NewScriptBlocker(cfg) ==
    [f \in DOMAIN cfg \cup {"analysisConfig"} |->
        IF f = "analysisConfig"
        THEN OrElse(cfg, "analysisConfig", DEFAULT_ANALYSIS_CONFIG)
        ELSE cfg[f]]

-----------------------------------------------------------------------------
(* Script trust decision engine: utils/script-blocker.ts *)

\* the thresholds written into checkCachedResponse
CachedMinScore == 3
CachedMaxThreats == 2

\* checkCachedResponse(cacheManager, url, content)
checkCachedResponse(st, url, content) ==
    LET cached == getCachedResponse(st, createHash(content))
    IN  IF cached.found /\ cached.analysis.present
        THEN [blocked  |-> \/ cached.analysis.score >= CachedMinScore
                           \/ Len(cached.analysis.threats) >= CachedMaxThreats,
              reason   |-> "Cached block",
              analysis |-> cached.analysis]
        ELSE [blocked |-> FALSE, reason |-> "none", analysis |-> NoAnalysis]

\* this.config.onBlocked?.(event): the number of calls it makes
Notify(cfg) == IF Has(cfg, "onBlocked") THEN 1 ELSE 0

\* The value shouldBlockScript resolves with and what it did on the way:
\* set is the BlockedScript it stored under url, notified the number of
\* onBlocked calls, analyzed whether the Content Analyzer ran, cacheRead
\* whether the cache was consulted.
Decision(blocked, reason, analysis, notified, analyzed, cacheRead) ==
    [blocked |-> blocked, reason |-> reason, analysis |-> analysis,
     set |-> [reason |-> IF reason = "none" THEN "Script analyzed" ELSE reason,
              analysis |-> analysis],
     notified |-> notified, analyzed |-> analyzed, cacheRead |-> cacheRead]

\* the code after the deny-list and allow-list checks: cache, then analysis
CacheThenAnalysis(cfg, st, url, content) ==
    LET cached   == checkCachedResponse(st, url, content)
        analysis == analyzeScript(content, cfg.analysisConfig)
        th       == OrElse(cfg, "analysisConfig", DEFAULT_ANALYSIS_CONFIG)
    IN  IF cached.blocked
        THEN Decision(TRUE, cached.reason, cached.analysis,
                      Notify(cfg), FALSE, TRUE)
        ELSE IF \/ analysis.score >= th.minScore
                \/ Len(analysis.threats) >= th.maxThreats
             THEN Decision(TRUE, "Malicious script detected", analysis,
                           Notify(cfg), TRUE, TRUE)
             ELSE Decision(FALSE, "none", analysis, 0, TRUE, TRUE)

\* shouldBlockScript with the allow-list consulted before the deny-list
shouldBlockScriptAllowFirst(cfg, st, url, content) ==
    IF SomePatternIncluded(url, OrElse(cfg, "whiteListedScripts", {}))
    THEN Decision(FALSE, "Whitelisted script", NoAnalysis, 0, FALSE, FALSE)
    ELSE IF SomePatternIncluded(url, OrElse(cfg, "blackListedScripts", {}))
         THEN Decision(TRUE, "Blacklisted script", NoAnalysis,
                       Notify(cfg), FALSE, FALSE)
         ELSE CacheThenAnalysis(cfg, st, url, content)

\* shouldBlockScript without the allow-list short-circuit
shouldBlockScriptNoAllowList(cfg, st, url, content) ==
    IF SomePatternIncluded(url, OrElse(cfg, "blackListedScripts", {}))
    THEN Decision(TRUE, "Blacklisted script", NoAnalysis,
                  Notify(cfg), FALSE, FALSE)
    ELSE CacheThenAnalysis(cfg, st, url, content)

\* ScriptBlocker.shouldBlockScript(url, content), run to completion
shouldBlockScript(cfg, st, url, content) ==
    IF SomePatternIncluded(url, OrElse(cfg, "blackListedScripts", {}))
    THEN Decision(TRUE, "Blacklisted script", NoAnalysis,
                  Notify(cfg), FALSE, FALSE)
    ELSE IF SomePatternIncluded(url, OrElse(cfg, "whiteListedScripts", {}))
         THEN Decision(FALSE, "Whitelisted script", NoAnalysis,
                       0, FALSE, FALSE)
         ELSE CacheThenAnalysis(cfg, st, url, content)

\* this.blockedScripts.set(url, info)
MapSet(map, key, value) ==
    [k \in DOMAIN map \cup {key} |-> IF k = key THEN value ELSE map[k]]

\* isScriptBlocked(url): this.blockedScripts.has(url)
isScriptBlocked(map, url) == url \in DOMAIN map

\* getBlockedScriptsCount(): this.blockedScripts.size
getBlockedScriptsCount(map) == Cardinality(DOMAIN map)

\* a clearBlockedScripts that leaves the entries in place
clearBlockedScriptsKeep(map) == map

\* clearBlockedScripts(): this.blockedScripts.clear()
clearBlockedScripts(map) == <<>>

-----------------------------------------------------------------------------
(* Inputs of the decision engine *)

\* script texts: nothing risky; eval("alert(1)"); document.domain = "x"
\* followed by delete window.alert
Benign  == <<29>>
EvalUse == <<10>>
EvasionBypass == <<4, 17>>
Contents == {Benign, EvalUse, EvasionBypass}

UrlEG == <<"e", "g", ".", "j", "s">>
UrlG  == <<"g", ".", "j", "s">>
UrlN  == <<"n", ".", "j", "s">>
Urls  == {UrlEG, UrlG, UrlN}
\* the request urls whose responses the worker caches
WorkerUrls == {UrlN}

CustomAnalysisConfig ==
    [minScore |-> 5, maxThreats |-> 3, checkSuspiciousStrings |-> TRUE]
AnalysisConfigs == {DEFAULT_ANALYSIS_CONFIG, CustomAnalysisConfig}

\* the configurations a decision engine is built with
EngineConfigs ==
    {NewScriptBlocker(c) : c \in
        UNION {
          { [blackListedScripts |-> b, whiteListedScripts |-> w,
             analysisConfig |-> a],
            [blackListedScripts |-> b, whiteListedScripts |-> w,
             analysisConfig |-> a, onBlocked |-> "cb"] } :
          b \in {{}, {<<"e">>}}, w \in {{}, {<<"g">>}}, a \in AnalysisConfigs }}

-----------------------------------------------------------------------------
(* Values of the parts a specification leaves alone *)

NoCall == [op |-> "none", n |-> 0, url |-> <<>>, content |-> <<>>,
           blocked |-> FALSE, reason |-> "none", notified |-> 0,
           analyzed |-> FALSE, cacheRead |-> FALSE]

EngineIdle ==
    /\ config = NewScriptBlocker(<<>>)
    /\ blockedScripts = <<>>
    /\ store = <<>>
    /\ last = NoCall
    /\ decided = {}

CacheIdle == putLog = <<>>

DomIdle ==
    /\ domConfig = <<>>
    /\ isPatched = FALSE
    /\ script = <<>>
    /\ domLast = <<>>

PiIdle ==
    /\ piSupplied = <<>>
    /\ piConfig = <<>>
    /\ blockers = <<>>
    /\ running = <<>>
    /\ current = 0
    /\ globals = <<>>
    /\ piLast = <<>>

MsgIdle ==
    /\ channel = <<>>
    /\ evals = <<>>

MonIdle ==
    /\ monitor = <<>>
    /\ held = <<>>
    /\ monLast = <<>>

AnIdle ==
    anLast = [op |-> "none", content |-> <<>>,
              config |-> [checkSuspiciousStrings |-> TRUE,
                          weights |-> [evasion |-> 3, covertExecution |-> 3,
                                       securityBypass |-> 2,
                                       maliciousIntent |-> 2],
                          scoringRules |-> [suspiciousStringWeight |-> 1]],
              result |-> [threats |-> <<>>, score |-> 0]]

WrIdle == writers = <<>>

FhIdle ==
    /\ handledRequests = {}
    /\ fetches = <<>>

RegIdle == observed = <<>>

CallIdle ==
    /\ inflight = <<>>
    /\ functions = <<>>

RepIdle == reportedUrls = {}

MmIdle ==
    /\ mutationMonitor = <<>>
    /\ mmLast = <<>>

-----------------------------------------------------------------------------
(* The decision engine and the background worker sharing one cache *)

\* a page-side call of ScriptBlocker.shouldBlockScript
ShouldBlockScript(url, content) ==
    /\ last.n < MaxOps
    /\ LET r == shouldBlockScript(config, store, url, content)
       IN  /\ blockedScripts' = MapSet(blockedScripts, url, r.set)
           /\ last' = [op |-> "shouldBlockScript", n |-> last.n + 1,
                       url |-> url, content |-> content,
                       blocked |-> r.blocked, reason |-> r.reason,
                       notified |-> r.notified, analyzed |-> r.analyzed,
                       cacheRead |-> r.cacheRead]
           /\ decided' = decided \cup {url}
    /\ UNCHANGED <<config, store>>
    /\ UNCHANGED beyondEngine

WorkerCall(op, url, text) ==
    [op |-> op, n |-> last.n + 1, url |-> url, content |-> text,
     blocked |-> FALSE, reason |-> "none", notified |-> 0,
     analyzed |-> FALSE, cacheRead |-> FALSE]

\* the worker's analyzeAndCacheScript(text, url, cacheManager)
AnalyzeAndCacheScript(text, url) ==
    /\ last.n < MaxOps
    /\ store' = cacheResponse(store, createHash(text), url,
                              analyzeScript(text, DEFAULT_ANALYSIS_CONFIG))
    /\ last' = WorkerCall("analyzeAndCacheScript", url, text)
    /\ UNCHANGED <<config, blockedScripts, decided>>
    /\ UNCHANGED beyondEngine

\* the worker's cacheNonScript(text, url, cacheManager)
CacheNonScript(text, url) ==
    /\ last.n < MaxOps
    /\ store' = cacheResponse(store, createHash(text), url, NoAnalysis)
    /\ last' = WorkerCall("cacheNonScript", url, text)
    /\ UNCHANGED <<config, blockedScripts, decided>>
    /\ UNCHANGED beyondEngine

\* a page-side call of ScriptBlocker.clearBlockedScripts
ClearBlockedScripts ==
    /\ last.n < MaxOps
    /\ blockedScripts' = clearBlockedScripts(blockedScripts)
    /\ last' = WorkerCall("clearBlockedScripts", <<>>, <<>>)
    /\ decided' = {}
    /\ UNCHANGED <<config, store>>
    /\ UNCHANGED beyondEngine

Init ==
    /\ config \in EngineConfigs
    /\ blockedScripts = <<>>
    /\ store = <<>>
    /\ last = NoCall
    /\ decided = {}
    /\ CacheIdle /\ DomIdle /\ PiIdle /\ MsgIdle /\ MonIdle /\ AnIdle /\ WrIdle
    /\ MmIdle
    /\ RepIdle
    /\ CallIdle
    /\ RegIdle
    /\ FhIdle

Next ==
    \/ \E url \in Urls, content \in Contents : ShouldBlockScript(url, content)
    \/ \E url \in WorkerUrls, text \in Contents :
          AnalyzeAndCacheScript(text, url)
    \/ \E url \in WorkerUrls, text \in Contents : CacheNonScript(text, url)
    \/ ClearBlockedScripts

Spec == Init /\ [][Next]_vars

-----------------------------------------------------------------------------
(* The cache manager alone, written to from an empty store *)

\* the hashes and payloads handed to cacheResponse
CacheAnalyses == {NoAnalysis, analyzeScript(EvalUse, DEFAULT_ANALYSIS_CONFIG)}
CacheTexts == {<<>>, Benign, EvalUse, EvasionBypass}

\* one completed call of CacheManager.cacheResponse(hash, url, analysis)
CacheResponse(hash, url, analysis) ==
    /\ Len(putLog) < MaxPuts
    /\ store' = cacheResponse(store, hash, url, analysis)
    /\ putLog' = Append(putLog, hash)
    /\ UNCHANGED <<config, blockedScripts, last, decided>>
    /\ UNCHANGED beyondCache

\* one completed call of CacheManager.clearCache()
ClearCache ==
    /\ putLog # <<>>
    /\ store' = clearCache(store)
    /\ putLog' = <<>>
    /\ UNCHANGED <<config, blockedScripts, last, decided>>
    /\ UNCHANGED beyondCache

InitCache ==
    /\ EngineIdle /\ CacheIdle /\ DomIdle /\ PiIdle /\ MsgIdle /\ MonIdle
    /\ AnIdle /\ WrIdle /\ FhIdle /\ RegIdle /\ CallIdle /\ RepIdle /\ MmIdle

NextCache ==
    \/ \E text \in CacheTexts, url \in WorkerUrls, analysis \in CacheAnalyses :
          CacheResponse(createHash(text), url, analysis)
    \/ ClearCache

SpecCache == InitCache /\ [][NextCache]_vars

-----------------------------------------------------------------------------
(* URL-centric DOM blocker: script-blocking.ts, the host-set variant *)

\* window.location.hostname
PageHostname == "page.com"

\* what script.src can hold: nothing, an absolute or resolved url, or text
\* that new URL() rejects
NoSrc      == [kind |-> "none", protocol |-> "", hostname |-> ""]
InvalidSrc == [kind |-> "invalid", protocol |-> "", hostname |-> ""]
HttpsSrc(host) == [kind |-> "url", protocol |-> "https:", hostname |-> host]
ExtensionSrc ==
    [kind |-> "url", protocol |-> "chrome-extension:", hostname |-> "extid"]
Srcs == {NoSrc, InvalidSrc, ExtensionSrc}
           \cup {HttpsSrc(h) : h \in {"evil.com", "good.com", "neutral.com",
                                      PageHostname}}

\* new URL(script.src, window.location.origin): throws, or the parsed url
ParseURL(src) ==
    [threw |-> src.kind = "invalid",
     protocol |-> src.protocol, hostname |-> src.hostname]

\* setOriginsFromConfig: a non-empty list becomes a Set, an empty one null
setOriginsFromConfig(cfg) ==
    [config |-> cfg,
     blockedOrigins     |-> OrElse(cfg, "blacklistedHosts", {}),
     whitelistedOrigins |-> OrElse(cfg, "whitelistedHosts", {})]

\* handleUnauthorizedExecution: this.config.onBlocked?.(info), target.remove()
handleUnauthorizedExecution(blocker, type) ==
    IF Has(blocker.config, "onBlocked") THEN <<type>> ELSE <<>>

\* The value checkAndBlockScript returns (ret), the onBlocked calls it made
\* (events) and the element as it leaves it (el).
Checked(ret, events, el) == [ret |-> ret, events |-> events, el |-> el]

\* step 3 of checkAndBlockScript: the unknown-origin report
ReportUnknown(blocker, el, url) ==
    IF /\ url.protocol \in {"http:", "https:"}
       /\ url.hostname # PageHostname
       /\ ~el.checked
    THEN Checked(FALSE,
                 IF Has(blocker.config, "onBlocked")
                 THEN <<"unknown-origin">> ELSE <<>>,
                 [el EXCEPT !.checked = TRUE])
    ELSE Checked(FALSE, <<>>, el)

\* ScriptBlocker.checkAndBlockScript(script)
checkAndBlockScript(blocker, el) ==
    IF el.src.kind = "none" THEN Checked(FALSE, <<>>, el)
    ELSE LET url == ParseURL(el.src)
         IN  IF url.threw THEN Checked(FALSE, <<>>, el)
             ELSE IF url.hostname \in blocker.whitelistedOrigins
                  THEN Checked(FALSE, <<>>, el)
                  ELSE IF url.hostname \in blocker.blockedOrigins
                       THEN Checked(TRUE,
                                handleUnauthorizedExecution(blocker, "blacklisted"),
                                [el EXCEPT !.inDom = FALSE])
                       ELSE ReportUnknown(blocker, el, url)

\* the configurations the DOM blocker is built with
DomConfigs ==
    UNION { { [blacklistedHosts |-> b, whitelistedHosts |-> w],
              [blacklistedHosts |-> b, whitelistedHosts |-> w,
               onBlocked |-> "cb"] } :
            b \in SUBSET {"evil.com", "good.com"},
            w \in SUBSET {"evil.com", "good.com"} }

DomCall(op, patched, ret, events) ==
    [op |-> op, patched |-> patched, ret |-> ret, events |-> events]

\* ScriptBlocker.setupBlocking()
SetupBlocking ==
    /\ ~isPatched
    /\ isPatched' = TRUE
    /\ domLast' = DomCall("setupBlocking", FALSE, FALSE, <<>>)
    /\ UNCHANGED <<domConfig, script>>
    /\ UNCHANGED beyondDom

\* parent.appendChild(script): the hook of setupAppendChildBlocking when
\* installed, the original appendChild otherwise
AppendChild ==
    /\ LET c == checkAndBlockScript(domConfig, script)
       IN  IF isPatched
           THEN /\ script' = IF c.ret THEN c.el
                             ELSE [c.el EXCEPT !.inDom = TRUE]
                /\ domLast' = DomCall("appendChild", TRUE, c.ret, c.events)
           ELSE /\ script' = [script EXCEPT !.inDom = TRUE]
                /\ domLast' = DomCall("appendChild", FALSE, FALSE, <<>>)
    /\ UNCHANGED <<domConfig, isPatched>>
    /\ UNCHANGED beyondDom

\* host code takes the script element out of the document
RemoveScript ==
    /\ script.inDom
    /\ script' = [script EXCEPT !.inDom = FALSE]
    /\ domLast' = DomCall("remove", isPatched, FALSE, <<>>)
    /\ UNCHANGED <<domConfig, isPatched>>
    /\ UNCHANGED beyondDom

InitDom ==
    /\ domConfig \in {setOriginsFromConfig(c) : c \in DomConfigs}
    /\ isPatched = FALSE
    /\ script \in [src : Srcs, textContent : {"", "x"},
                   checked : {FALSE}, inDom : {FALSE}]
    /\ domLast = DomCall("none", FALSE, FALSE, <<>>)
    /\ EngineIdle /\ CacheIdle /\ PiIdle /\ MsgIdle /\ MonIdle /\ AnIdle
    /\ MmIdle
    /\ RepIdle
    /\ CallIdle
    /\ RegIdle
    /\ FhIdle
    /\ WrIdle

NextDom ==
    \/ SetupBlocking
    \/ AppendChild
    \/ RemoveScript

SpecDom == InitDom /\ [][NextDom]_vars

-----------------------------------------------------------------------------
(* PageIntegrity and the global-method interceptor: index.ts,
   utils/script-interceptor.ts *)

\* mergeConfig(defaults, config)
mergeConfig(defaults, cfg) ==
    [strictMode |->
        OrElse(cfg, "strictMode", OrElse(defaults, "strictMode", FALSE)),
     whiteListedScripts |->
        OrElse(cfg, "whiteListedScripts",
               OrElse(defaults, "whiteListedScripts", {})),
     blackListedScripts |->
        OrElse(cfg, "blackListedScripts",
               OrElse(defaults, "blackListedScripts", {})),
     analysisConfig |->
        OrElse(cfg, "analysisConfig",
               OrElse(defaults, "analysisConfig", DEFAULT_ANALYSIS_CONFIG))]

\* initScriptBlocker(config, cacheManager): a ScriptBlocker with an empty
\* blockedScripts map
initScriptBlocker(cfg) ==
    [config |-> NewScriptBlocker(cfg), blockedScripts |-> <<>>]

\* the globals interceptGlobalMethods replaces
Globals == {"eval", "Function", "setTimeout", "setInterval", "XHR.open", "fetch"}

\* every global as the browser provides it: no hook around it
Native == [g \in Globals |-> <<>>]

\* interceptGlobalMethods(scriptBlocker): each global becomes a function that
\* closes over the blocker and over the value the global had until then
interceptGlobalMethods(glob, i) == [g \in DOMAIN glob |-> Append(glob[g], i)]

\* ScriptInterceptor.start() that installs the hooks on every call
startUnguarded(i, run, glob) ==
    [running |-> [run EXCEPT ![i] = TRUE],
     globals |-> interceptGlobalMethods(glob, i)]

\* ScriptInterceptor.start()
start(i, run, glob) ==
    IF run[i] THEN [running |-> run, globals |-> glob]
    ELSE [running |-> [run EXCEPT ![i] = TRUE],
          globals |-> interceptGlobalMethods(glob, i)]

\* ScriptInterceptor.stop()
stop(i, run, glob) ==
    IF ~run[i] THEN [running |-> run, globals |-> glob]
    ELSE [running |-> [run EXCEPT ![i] = FALSE], globals |-> glob]

\* startScriptBlocking(deps), stopScriptBlocking(deps)
startScriptBlocking(i, run, glob) == start(i, run, glob)
stopScriptBlocking(i, run, glob) == stop(i, run, glob)

\* the first argument the hooks hand to shouldBlockScript
NameEval        == <<"e", "v", "a", "l">>
NameFunction    == <<"F", "u", "n", "c", "t", "i", "o", "n">>
NameSetTimeout  == <<"s", "e", "t", "T", "i", "m", "e", "o", "u", "t">>
NameSetInterval == <<"s", "e", "t", "I", "n", "t", "e", "r", "v", "a", "l">>
DotJs == <<".", "j", "s">>

\* the hooks with timers that consult the engine for every kind of handler
HookTimersAlwaysConsult(g, arg) ==
    CASE g = "eval" ->
           [consults |-> TRUE, url |-> NameEval, content |-> arg.text,
            refusal |-> "undefined", awaits |-> TRUE]
      [] g = "Function" ->
           [consults |-> TRUE, url |-> NameFunction, content |-> arg.text,
            refusal |-> "noop", awaits |-> FALSE]
      [] g = "setTimeout" ->
           [consults |-> TRUE, url |-> NameSetTimeout,
            content |-> arg.text, refusal |-> "zero", awaits |-> TRUE]
      [] g = "setInterval" ->
           [consults |-> TRUE, url |-> NameSetInterval,
            content |-> arg.text, refusal |-> "zero", awaits |-> TRUE]
      [] g \in {"XHR.open", "fetch"} ->
           [consults |-> EndsWith(arg.text, DotJs), url |-> arg.text,
            content |-> <<>>, refusal |-> "throw", awaits |-> TRUE]

\* the hooks with an XHR open and a fetch that swallow a blocked decision
HookRequestsSwallow(g, arg) ==
    CASE g = "eval" ->
           [consults |-> TRUE, url |-> NameEval, content |-> arg.text,
            refusal |-> "undefined", awaits |-> TRUE]
      [] g = "Function" ->
           [consults |-> TRUE, url |-> NameFunction, content |-> arg.text,
            refusal |-> "noop", awaits |-> FALSE]
      [] g = "setTimeout" ->
           [consults |-> arg.kind = "string", url |-> NameSetTimeout,
            content |-> arg.text, refusal |-> "zero", awaits |-> TRUE]
      [] g = "setInterval" ->
           [consults |-> arg.kind = "string", url |-> NameSetInterval,
            content |-> arg.text, refusal |-> "zero", awaits |-> TRUE]
      [] g \in {"XHR.open", "fetch"} ->
           [consults |-> EndsWith(arg.text, DotJs), url |-> arg.text,
            content |-> <<>>, refusal |-> "undefined", awaits |-> TRUE]

\* One hook of interceptGlobalMethods, for the global g called with arg:
\* whether it calls shouldBlockScript (consults), with which url and content,
\* what the caller gets when the decision is blocked (refusal), and whether
\* the hook goes on to the function it wrapped when it is not (passes).
Hook(g, arg) ==
    CASE g = "eval" ->
           [consults |-> TRUE, url |-> NameEval, content |-> arg.text,
            refusal |-> "undefined", awaits |-> TRUE]
      [] g = "Function" ->
           [consults |-> TRUE, url |-> NameFunction, content |-> arg.text,
            refusal |-> "noop", awaits |-> FALSE]
      [] g = "setTimeout" ->
           [consults |-> arg.kind = "string", url |-> NameSetTimeout,
            content |-> arg.text, refusal |-> "zero", awaits |-> TRUE]
      [] g = "setInterval" ->
           [consults |-> arg.kind = "string", url |-> NameSetInterval,
            content |-> arg.text, refusal |-> "zero", awaits |-> TRUE]
      [] g \in {"XHR.open", "fetch"} ->
           [consults |-> EndsWith(arg.text, DotJs), url |-> arg.text,
            content |-> <<>>, refusal |-> "throw", awaits |-> TRUE]

\* what a call leaves behind: the outcome the caller sees, the engines that
\* were consulted (outermost hook first), whether one of them decided
\* blocked, the Error the caller got (its message in two parts), whether an
\* engine failed, the onBlocked calls made, and the blockers with their maps
Called(outcome, consulted, blocked, error, notified, bs) ==
    [outcome |-> outcome, consulted |-> consulted, blocked |-> blocked,
     error |-> error, failed |-> FALSE, notified |-> notified,
     blockers |-> bs]

\* new Error(`Blocked script: ${result.reason}`), thrown by a hook that throws
BlockedError(refusal, reason) ==
    IF refusal = "throw" THEN <<"Blocked script: ", reason>> ELSE <<>>

\* the error caches.open / cache.match fail with when the store is unusable
CacheError == <<"cache failure">>

\* what the caller of a hook gets when shouldBlockScript rejects: the promise
\* the hook returned rejects (eval, timers, XHR open, fetch); the Function
\* hook has returned its no-op function
WhenRejected(h) ==
    IF ~h.awaits THEN h.refusal
    ELSE IF h.refusal = "throw" THEN "throw" ELSE "rejected"

\* A call of the global g with arg, entering the k-th hook of chain (the last
\* installed hook is the outermost); st is the cache, bs the blockers, and
\* fails tells whether the cache store fails when it is opened.  An engine
\* that gets as far as the cache lookup then rejects, before it has written
\* its map or called onBlocked.
RECURSIVE CallGlobal(_, _, _, _, _, _, _)
CallGlobal(g, arg, chain, k, st, bs, fails) ==
    IF k = 0 THEN Called("native", <<>>, FALSE, <<>>, 0, bs)
    ELSE LET h == Hook(g, arg)
             i == chain[k]
         IN  IF ~h.consults THEN CallGlobal(g, arg, chain, k - 1, st, bs, fails)
             ELSE LET r   == shouldBlockScript(bs[i].config, st, h.url, h.content)
                      bs2 == [bs EXCEPT ![i].blockedScripts =
                                 MapSet(@, h.url, r.set)]
                  IN  IF fails /\ r.cacheRead
                      THEN [Called(WhenRejected(h), <<i>>, FALSE,
                                   IF h.awaits THEN CacheError ELSE <<>>,
                                   0, bs) EXCEPT !.failed = TRUE]
                      ELSE IF ~h.awaits
                      THEN Called(h.refusal, <<i>>, r.blocked,
                                  BlockedError(h.refusal, r.reason),
                                  r.notified, bs2)
                      ELSE IF r.blocked
                           THEN Called(h.refusal, <<i>>, TRUE,
                                       BlockedError(h.refusal, r.reason),
                                       r.notified, bs2)
                           ELSE LET inner == CallGlobal(g, arg, chain, k - 1,
                                                        st, bs2, fails)
                                IN  [inner EXCEPT
                                       !.consulted = <<i>> \o @]

\* what the last operation on the PageIntegrity side was
PiCall(op, n, target, wasRunning, partial, global, arg, c) ==
    [op |-> op, n |-> n, target |-> target, wasRunning |-> wasRunning,
     partial |-> partial, global |-> global, arg |-> arg,
     outcome |-> c.outcome, consulted |-> c.consulted,
     blocked |-> c.blocked, error |-> c.error, failed |-> c.failed,
     notified |-> c.notified]

NoArg == [kind |-> "none", text |-> <<>>]
NotCalled == Called("none", <<>>, FALSE, <<>>, 0, <<>>)

\* the configurations handed to new PageIntegrity()
PiConfigs ==
    UNION { { [f \in b \cup a \cup o |->
                  CASE f = "blackListedScripts" -> {<<"e">>}
                    [] f = "analysisConfig" -> CustomAnalysisConfig
                    [] f = "onBlocked" -> "cb"] } :
            b \in SUBSET {"blackListedScripts"},
            a \in SUBSET {"analysisConfig"},
            o \in SUBSET {"onBlocked"} }

\* the partial configurations handed to updateConfig
Partials ==
    { [blackListedScripts |-> {}],
      [whiteListedScripts |-> {<<"g">>}],
      [onBlocked |-> "cb2"] }

UrlCss == <<"e", ".", "c", "s", "s">>
StringArgs == {[kind |-> "string", text |-> t] : t \in {Benign, EvasionBypass}}
FunctionArg == [kind |-> "function", text |-> <<>>]
UrlArgs == {[kind |-> "url", text |-> u] : u \in {UrlEG, UrlN, UrlCss}}

\* the arguments each global is called with
Args(g) ==
    CASE g \in {"eval", "Function"} -> StringArgs
      [] g = "setTimeout"  -> {[kind |-> "string", text |-> EvasionBypass],
                               FunctionArg}
      [] g = "setInterval" -> {[kind |-> "string", text |-> Benign]}
      [] g = "XHR.open"    -> {[kind |-> "url", text |-> UrlEG]}
      [] g = "fetch"       -> UrlArgs

\* pi.updateConfig(newConfig)
UpdateConfig(newConfig) ==
    /\ piLast.n < MaxPiOps
    /\ LET merged == mergeConfig(piConfig, newConfig)
           i      == Len(blockers) + 1
           s      == startScriptBlocking(i, Append(running, FALSE), globals)
       IN  /\ piConfig' = merged
           /\ blockers' = Append(blockers, initScriptBlocker(merged))
           /\ current' = i
           /\ running' = s.running
           /\ globals' = s.globals
           /\ piLast' = PiCall("updateConfig", piLast.n + 1, i, FALSE,
                               newConfig, "none", NoArg, NotCalled)
    /\ UNCHANGED piSupplied
    /\ UNCHANGED beyondPi

\* pi.destroy()
Destroy ==
    /\ piLast.n < MaxPiOps
    /\ LET s == stopScriptBlocking(current, running, globals)
       IN  /\ running' = s.running
           /\ globals' = s.globals
    /\ piLast' = PiCall("destroy", piLast.n + 1, current, running[current],
                        <<>>, "none", NoArg, NotCalled)
    /\ UNCHANGED <<piSupplied, piConfig, blockers, current>>
    /\ UNCHANGED beyondPi

\* interceptor.start() on one of the interceptors built so far
InterceptorStart(i) ==
    /\ piLast.n < MaxPiOps
    /\ LET s == start(i, running, globals)
       IN  /\ running' = s.running
           /\ globals' = s.globals
    /\ piLast' = PiCall("start", piLast.n + 1, i, running[i],
                        <<>>, "none", NoArg, NotCalled)
    /\ UNCHANGED <<piSupplied, piConfig, blockers, current>>
    /\ UNCHANGED beyondPi

\* interceptor.stop() on one of the interceptors built so far
InterceptorStop(i) ==
    /\ piLast.n < MaxPiOps
    /\ LET s == stop(i, running, globals)
       IN  /\ running' = s.running
           /\ globals' = s.globals
    /\ piLast' = PiCall("stop", piLast.n + 1, i, running[i],
                        <<>>, "none", NoArg, NotCalled)
    /\ UNCHANGED <<piSupplied, piConfig, blockers, current>>
    /\ UNCHANGED beyondPi

\* page code calls one of the globals, and every promise it started settles;
\* the cache store works during the call, or fails
Call(g, arg, fails) ==
    /\ piLast.n < MaxPiOps
    /\ LET c == CallGlobal(g, arg, globals[g], Len(globals[g]), store,
                           blockers, fails)
       IN  /\ blockers' = c.blockers
           /\ piLast' = PiCall("call", piLast.n + 1, 0, FALSE, <<>>, g, arg, c)
    /\ UNCHANGED <<piSupplied, piConfig, running, current, globals>>
    /\ UNCHANGED beyondPi

\* the state new PageIntegrity(config) leaves
InitPI ==
    /\ piSupplied \in PiConfigs
    /\ piConfig = mergeConfig(<<>>, piSupplied)
    /\ blockers = <<initScriptBlocker(piConfig)>>
    /\ current = 1
    /\ running = startScriptBlocking(1, <<FALSE>>, Native).running
    /\ globals = startScriptBlocking(1, <<FALSE>>, Native).globals
    /\ piLast = PiCall("new", 0, 1, FALSE, piSupplied, "none", NoArg, NotCalled)
    /\ EngineIdle /\ CacheIdle /\ DomIdle /\ MsgIdle /\ MonIdle /\ AnIdle
    /\ MmIdle
    /\ RepIdle
    /\ CallIdle
    /\ RegIdle
    /\ FhIdle
    /\ WrIdle

NextPI ==
    \/ \E newConfig \in Partials : UpdateConfig(newConfig)
    \/ Destroy
    \/ \E i \in 1..Len(running) : InterceptorStart(i)
    \/ \E i \in 1..Len(running) : InterceptorStop(i)
    \/ \E g \in Globals : \E arg \in Args(g) : \E fails \in BOOLEAN :
          Call(g, arg, fails)

SpecPI == InitPI /\ [][NextPI]_vars

-----------------------------------------------------------------------------
(* Pattern-based DOM blocker: script-blocking.ts (allowedHosts / blockedHosts
   compiled to regular expressions) *)

\* String.prototype.startsWith
StartsWith(s, p) == Len(p) <= Len(s) /\ SubSeq(s, 1, Len(p)) = p

\* pattern.replace(/\*/g, '.*')
RECURSIVE ReplaceStars(_, _)
ReplaceStars(pattern, i) ==
    IF i > Len(pattern) THEN <<>>
    ELSE (IF pattern[i] = "*" THEN <<".", "*">> ELSE <<pattern[i]>>)
            \o ReplaceStars(pattern, i + 1)

\* new RegExp('^' + pattern.replace(/\*/g, '.*') + '$'): the expression
\* between the two anchors
ToRegExp(pattern) == ReplaceStars(pattern, 1)

\* one regular-expression atom against one character
AtomMatches(atom, c) == atom = "." \/ atom = c

\* RegExp.prototype.test for an anchored expression of literals, '.' and
\* starred atoms: re from position i matches s from position j to its end
RECURSIVE ReMatch(_, _, _, _)
ReMatch(re, i, s, j) ==
    IF i > Len(re) THEN j > Len(s)
    ELSE IF i < Len(re) /\ re[i + 1] = "*"
         THEN \/ ReMatch(re, i + 2, s, j)
              \/ /\ j <= Len(s)
                 /\ AtomMatches(re[i], s[j])
                 /\ ReMatch(re, i, s, j + 1)
         ELSE /\ j <= Len(s)
              /\ AtomMatches(re[i], s[j])
              /\ ReMatch(re, i + 1, s, j + 1)

RegExpTest(re, s) == ReMatch(re, 1, s, 1)

\* matchesPattern(url, patterns); null is the empty set of expressions
matchesPattern(url, patterns) == \E re \in patterns : RegExpTest(re, url)

\* setPatternsFromConfig(config)
setPatternsFromConfig(cfg) ==
    [config |-> cfg,
     allowedPatterns |-> {ToRegExp(h) : h \in OrElse(cfg, "allowedHosts", {})},
     blockedPatterns |-> {ToRegExp(h) : h \in OrElse(cfg, "blockedHosts", {})}]

Https == <<"h", "t", "t", "p", "s", ":">>
ChromeExtension == <<"c", "h", "r", "o", "m", "e", "-", "e", "x", "t", "e", "n", "s", "i", "o", "n", ":">>
SlashSlash == <<"/", "/">>
ChromeExtensionPrefix == ChromeExtension \o SlashSlash

\* isChromeExtension(url)
isChromeExtension(url) == StartsWith(url, ChromeExtensionPrefix)

\* window.location.hostname of the page the blocker runs in
PageHost == <<"p", "a", "g", "e", ".", "c", "o", "m">>
HostBad    == <<"b", "a", "d", ".", "c", "o", "m">>
HostSubBad == <<"s", "u", "b", ".", "b", "a", "d", ".", "c", "o", "m">>
HostOk     == <<"o", "k", ".", "c", "o", "m">>
HostNew    == <<"n", "e", "w", ".", "n", "e", "t">>
HostOther  == <<"o", "t", "h", "e", "r", ".", "n", "e", "t">>
HostExt    == <<"a", "b", "c", "d">>
PathXJs    == <<"/", "x", ".", "j", "s">>

\* script.src values: none, an absolute url, text new URL() rejects
NoUrl      == [kind |-> "none", protocol |-> <<>>, hostname |-> <<>>,
               pathname |-> <<>>]
InvalidUrl == [kind |-> "invalid", protocol |-> <<>>, hostname |-> <<>>,
               pathname |-> <<>>]
Url(protocol, host) ==
    [kind |-> "url", protocol |-> protocol, hostname |-> host,
     pathname |-> PathXJs]

\* a src written relative to the document, and one with another scheme
RelativeUrl == [kind |-> "relative", protocol |-> <<>>, hostname |-> <<>>,
                pathname |-> PathXJs]
Ftp == <<"f", "t", "p", ":">>

\* new URL(script.src, window.location.origin) for a src it accepts: a
\* relative src is resolved against the origin of the page
NewURL(src) ==
    IF src.kind = "relative"
    THEN [kind |-> "url", protocol |-> Https, hostname |-> PageHost,
          pathname |-> src.pathname]
    ELSE src

\* URL.href
Href(u) == u.protocol \o SlashSlash \o u.hostname \o u.pathname

\* handleUnauthorizedExecution(type, script, context)
handleUnauthorizedExecutionP(blocker, type) ==
    IF Has(blocker.config, "onBlocked") THEN <<type>> ELSE <<>>

\* step 3 that does not compare the hostname with the page's
ReportUnknownPAnyHost(blocker, el, u) ==
    IF /\ OrElse(blocker.config, "reportUnknownScripts", FALSE)
       /\ u.protocol \in {<<"h", "t", "t", "p", ":">>, Https}
       /\ ~el.checked
    THEN Checked(FALSE,
                 handleUnauthorizedExecutionP(blocker, "unknown-origin"),
                 [el EXCEPT !.checked = TRUE])
    ELSE Checked(FALSE, <<>>, el)

\* step 3 of checkAndBlockScript: report unknown scripts if configured
ReportUnknownP(blocker, el, u) ==
    IF /\ OrElse(blocker.config, "reportUnknownScripts", FALSE)
       /\ u.protocol \in {<<"h", "t", "t", "p", ":">>, Https}
       /\ u.hostname # PageHost
       /\ ~el.checked
    THEN Checked(FALSE,
                 handleUnauthorizedExecutionP(blocker, "unknown-origin"),
                 [el EXCEPT !.checked = TRUE])
    ELSE Checked(FALSE, <<>>, el)

\* checkAndBlockScript that reports an unknown script on every pass
checkAndBlockScriptPReportAlways(blocker, el) ==
    IF el.src.kind \in {"none", "invalid"} THEN Checked(FALSE, <<>>, el)
    ELSE LET scriptUrl == NewURL(el.src)
             fullUrl == Href(scriptUrl)
         IN  IF /\ OrElse(blocker.config, "blockExtensions", FALSE)
                /\ isChromeExtension(fullUrl)
             THEN Checked(TRUE,
                          handleUnauthorizedExecutionP(blocker, "extension"),
                          [el EXCEPT !.inDom = FALSE])
             ELSE IF matchesPattern(fullUrl, blocker.allowedPatterns)
                  THEN Checked(FALSE, <<>>, el)
                  ELSE IF matchesPattern(fullUrl, blocker.blockedPatterns)
                       THEN Checked(TRUE,
                                handleUnauthorizedExecutionP(blocker, "blocked"),
                                [el EXCEPT !.inDom = FALSE])
                       ELSE ReportUnknownP(blocker,
                                           [el EXCEPT !.checked = FALSE],
                                           scriptUrl)

\* checkAndBlockScript that lets a script without src fall through to the
\* url checks, its empty src resolved against the page
checkAndBlockScriptPInlineChecked(blocker, el) ==
    IF el.src.kind = "invalid" THEN Checked(FALSE, <<>>, el)
    ELSE LET u == IF el.src.kind = "none"
                  THEN [kind |-> "url", protocol |-> Https,
                        hostname |-> PageHost, pathname |-> <<"/">>]
                  ELSE NewURL(el.src)
             fullUrl == Href(u)
         IN  IF /\ OrElse(blocker.config, "blockExtensions", FALSE)
                /\ isChromeExtension(fullUrl)
             THEN Checked(TRUE,
                          handleUnauthorizedExecutionP(blocker, "extension"),
                          [el EXCEPT !.inDom = FALSE])
             ELSE IF matchesPattern(fullUrl, blocker.allowedPatterns)
                  THEN Checked(FALSE, <<>>, el)
                  ELSE IF matchesPattern(fullUrl, blocker.blockedPatterns)
                       THEN Checked(TRUE,
                                handleUnauthorizedExecutionP(blocker, "blocked"),
                                [el EXCEPT !.inDom = FALSE])
                       ELSE ReportUnknownP(blocker, el, u)

\* checkAndBlockScript that consults the allowed expressions before it looks
\* for an extension url
checkAndBlockScriptPAllowFirst(blocker, el) ==
    IF el.src.kind \in {"none", "invalid"} THEN Checked(FALSE, <<>>, el)
    ELSE LET scriptUrl == NewURL(el.src)
             fullUrl == Href(scriptUrl)
         IN  IF matchesPattern(fullUrl, blocker.allowedPatterns)
             THEN Checked(FALSE, <<>>, el)
             ELSE IF /\ OrElse(blocker.config, "blockExtensions", FALSE)
                     /\ isChromeExtension(fullUrl)
                  THEN Checked(TRUE,
                          handleUnauthorizedExecutionP(blocker, "extension"),
                          [el EXCEPT !.inDom = FALSE])
                  ELSE IF matchesPattern(fullUrl, blocker.blockedPatterns)
                       THEN Checked(TRUE,
                                handleUnauthorizedExecutionP(blocker, "blocked"),
                                [el EXCEPT !.inDom = FALSE])
                       ELSE ReportUnknownP(blocker, el, scriptUrl)

\* ScriptBlocker.checkAndBlockScript(script) of script-blocking.ts
checkAndBlockScriptP(blocker, el) ==
    IF el.src.kind \in {"none", "invalid"} THEN Checked(FALSE, <<>>, el)
    ELSE LET scriptUrl == NewURL(el.src)
             fullUrl == Href(scriptUrl)
         IN  IF /\ OrElse(blocker.config, "blockExtensions", FALSE)
                /\ isChromeExtension(fullUrl)
             THEN Checked(TRUE,
                          handleUnauthorizedExecutionP(blocker, "extension"),
                          [el EXCEPT !.inDom = FALSE])
             ELSE IF matchesPattern(fullUrl, blocker.allowedPatterns)
                  THEN Checked(FALSE, <<>>, el)
                  ELSE IF matchesPattern(fullUrl, blocker.blockedPatterns)
                       THEN Checked(TRUE,
                                handleUnauthorizedExecutionP(blocker, "blocked"),
                                [el EXCEPT !.inDom = FALSE])
                       ELSE ReportUnknownP(blocker, el, scriptUrl)

\* entries of allowedHosts / blockedHosts: a bare host, a wildcard host, and
\* patterns written against the whole url
PatHost     == <<"b", "a", "d", ".", "c", "o", "m">>
PatWildHost == <<"*", ".", "b", "a", "d", ".", "c", "o", "m">>
PatBadUrl   == <<"h", "t", "t", "p", "s", ":", "/", "/", "b", "a", "d", ".", "c", "o", "m", "/", "*">>
PatAllHttps == <<"h", "t", "t", "p", "s", ":", "/", "/", "*">>
PatOkUrl    == <<"h", "t", "t", "p", "s", ":", "/", "/", "o", "k", ".", "c", "o", "m", "/", "*">>
PatExt      == ChromeExtensionPrefix \o <<"*">>

\* the configurations the pattern-based blocker is built with
BlockingConfigs ==
    { [f \in {"blockExtensions", "reportUnknownScripts"} \cup b \cup a \cup o |->
          CASE f = "blockExtensions" -> x
            [] f = "reportUnknownScripts" -> r
            [] f = "blockedHosts" -> bh
            [] f = "allowedHosts" -> ah
            [] f = "onBlocked" -> "cb"] :
      x \in BOOLEAN, r \in BOOLEAN,
      b \in SUBSET {"blockedHosts"}, a \in SUBSET {"allowedHosts"},
      o \in SUBSET {"onBlocked"},
      bh \in {{PatHost}, {PatWildHost}, {PatBadUrl}, {PatAllHttps}, {PatExt}},
      ah \in {{PatOkUrl}, {PatBadUrl}, {PatExt}} }

\* the script elements host code creates
BlockingScripts ==
    {[src |-> NoUrl, textContent |-> t, checked |-> FALSE, inDom |-> FALSE] :
        t \in {"", "x"}}
    \cup
    {[src |-> u, textContent |-> "", checked |-> FALSE, inDom |-> FALSE] :
        u \in {InvalidUrl, Url(Https, HostBad), Url(Https, HostSubBad),
               Url(Https, HostOk), Url(Https, HostNew), Url(Https, PageHost),
               Url(ChromeExtension, HostExt), Url(Ftp, HostNew),
               RelativeUrl}}

\* the urls host code later assigns to script.src
NewSrcs == {Url(Https, HostNew), Url(Https, HostOther), Url(Https, HostBad)}

\* what the last operation on the blocker or the element did, with the number
\* of passes of the element through checkAndBlockScript so far and the number
\* of 'unknown-origin' callbacks made for it so far
BlockingCall(op, patched, ret, events, passes, unknownReports) ==
    [op |-> op, patched |-> patched, ret |-> ret, events |-> events,
     passes |-> passes, unknownReports |-> unknownReports]

\* the number of events of one type
CountType(events, type) ==
    Cardinality({k \in 1..Len(events) : events[k] = type})

\* ScriptBlocker.setupBlocking()
SetupBlockingP ==
    /\ ~isPatched
    /\ isPatched' = TRUE
    /\ domLast' = BlockingCall("setupBlocking", FALSE, FALSE, <<>>,
                               domLast.passes, domLast.unknownReports)
    /\ UNCHANGED <<domConfig, script>>
    /\ UNCHANGED beyondDom

\* parent.appendChild(script): the hook of setupAppendChildBlocking when
\* installed, the original appendChild otherwise
AppendChildP ==
    /\ domLast.passes < MaxPasses
    /\ LET c == checkAndBlockScriptP(domConfig, script)
       IN  IF isPatched
           THEN /\ script' = IF c.ret THEN c.el
                             ELSE [c.el EXCEPT !.inDom = TRUE]
                /\ domLast' = BlockingCall("appendChild", TRUE, c.ret, c.events,
                                  domLast.passes + 1,
                                  domLast.unknownReports
                                     + CountType(c.events, "unknown-origin"))
           ELSE /\ script' = [script EXCEPT !.inDom = TRUE]
                /\ domLast' = BlockingCall("appendChild", FALSE, FALSE, <<>>,
                                  domLast.passes, domLast.unknownReports)
    /\ reportedUrls' =
          LET c == checkAndBlockScriptP(domConfig, script)
          IN  IF isPatched /\ CountType(c.events, "unknown-origin") > 0
              THEN reportedUrls \cup {Href(NewURL(script.src))}
              ELSE reportedUrls
    /\ UNCHANGED <<domConfig, isPatched>>
    /\ UNCHANGED beyondRep

\* host code assigns script.src
SetSrc(u) ==
    /\ script.src # u
    /\ script' = [script EXCEPT !.src = u]
    /\ domLast' = BlockingCall("setSrc", isPatched, FALSE, <<>>,
                               domLast.passes, domLast.unknownReports)
    /\ UNCHANGED <<domConfig, isPatched>>
    /\ UNCHANGED beyondDom

\* host code takes the script element out of the document
RemoveScriptP ==
    /\ script.inDom
    /\ script' = [script EXCEPT !.inDom = FALSE]
    /\ domLast' = BlockingCall("remove", isPatched, FALSE, <<>>,
                               domLast.passes, domLast.unknownReports)
    /\ UNCHANGED <<domConfig, isPatched>>
    /\ UNCHANGED beyondDom

InitBlocking ==
    /\ domConfig \in {setPatternsFromConfig(c) : c \in BlockingConfigs}
    /\ isPatched = FALSE
    /\ script \in BlockingScripts
    /\ domLast = BlockingCall("none", FALSE, FALSE, <<>>, 0, 0)
    /\ EngineIdle /\ CacheIdle /\ PiIdle /\ MsgIdle /\ MonIdle /\ AnIdle
    /\ MmIdle
    /\ RepIdle
    /\ CallIdle
    /\ RegIdle
    /\ FhIdle
    /\ WrIdle

NextBlocking ==
    \/ SetupBlockingP
    \/ AppendChildP
    \/ \E u \in NewSrcs : SetSrc(u)
    \/ RemoveScriptP

SpecBlocking == InitBlocking /\ [][NextBlocking]_vars

-----------------------------------------------------------------------------
(* The worker-backed eval hook: ScriptBlocker.monitorEval of
   script-blocking.ts, sendMessage of utils/message.ts, and the 'getUrl'
   handler of service-worker.ts *)

\* the urls the worker has cached script texts under
BadUrl == Href(Url(Https, HostBad))
OkUrl  == Href(Url(Https, HostOk))
NewUrl == Href(Url(Https, HostNew))

\* the worker's cache: Benign fetched from the allowed host, EvalUse from the
\* blocked one, EvasionBypass from a host on neither list
WorkerStore ==
    cacheResponse(
      cacheResponse(
        cacheResponse(<<>>, createHash(Benign), OkUrl, NoAnalysis),
        createHash(EvalUse), BadUrl, NoAnalysis),
      createHash(EvasionBypass), NewUrl, NoAnalysis)

\* the texts handed to eval; Uncached is one the worker has never seen
Uncached == <<29, 29>>
EvalTexts == {Benign, EvalUse, EvasionBypass, Uncached}

\* the configurations of the blocker whose hook is installed
EvalConfigs ==
    { [f \in b \cup a \cup o |->
          CASE f = "blockedHosts" -> {PatBadUrl}
            [] f = "allowedHosts" -> {PatOkUrl}
            [] f = "onBlocked" -> "cb"] :
      b \in SUBSET {"blockedHosts"}, a \in SUBSET {"allowedHosts"},
      o \in SUBSET {"onBlocked"} }

\* no url: the null the worker sends for a hash it has not cached
NullUrl == <<>>

\* sendMessage(message): the promise is created with its listener registered,
\* and the message is posted only when there is a controller
sendMessage(ch, message) ==
    IF ch.controller
    THEN [ch EXCEPT !.toWorker = Append(@, message)]
    ELSE ch

\* the .then callback of monitorEval, given response.url: what becomes of the
\* eval call and which onBlocked calls are made
EvalThen(blocker, url) ==
    IF url = NullUrl THEN [state |-> "executed", events |-> <<>>]
    ELSE IF matchesPattern(url, blocker.allowedPatterns)
         THEN [state |-> "executed", events |-> <<>>]
         ELSE IF matchesPattern(url, blocker.blockedPatterns)
              THEN [state |-> "suppressed",
                    events |-> handleUnauthorizedExecutionP(blocker, "blocked")]
              ELSE IF Has(blocker.config, "onBlocked")
                   THEN [state |-> "executed", events |-> <<"unknown-origin">>]
                   ELSE [state |-> "dropped", events |-> <<>>]

\* the .catch callback of monitorEval
EvalCatch == [state |-> "executed", events |-> <<>>]

\* messageHandler of sendMessage on one message event, for one eval call
\* whose promise is still pending
messageHandler(blocker, e, data) ==
    IF data.type = "response"
    THEN LET t == EvalThen(blocker, data.url)
         IN  [e EXCEPT !.state = t.state, !.events = t.events]
    ELSE IF data.type = "error"
         THEN [e EXCEPT !.state = EvalCatch.state, !.events = EvalCatch.events]
         ELSE e

\* the message a worker posts back for a getUrl request: the 'url' message of
\* service-worker.ts, or the 'response' / 'error' messages sendMessage
\* listens for
WorkerReply(kind, st, hash) ==
    LET data == getCachedResponse(st, hash)
    IN  [type |-> kind,
         url  |-> IF kind = "error" THEN NullUrl
                  ELSE IF data.found THEN data.url ELSE NullUrl]

\* page code calls the hooked window.eval(code)
EvalCall(code) ==
    /\ Len(evals) < MaxEvals
    /\ evals' = Append(evals, [code |-> code, hash |-> createHash(code),
                               state |-> "pending", events |-> <<>>])
    /\ channel' = sendMessage(channel,
                              [type |-> "getUrl", hash |-> createHash(code)])
    /\ UNCHANGED beyondMsg

\* the worker takes the next request and posts its reply
WorkerAnswer(kind) ==
    /\ channel.toWorker # <<>>
    /\ channel' = [channel EXCEPT
                     !.toWorker = Tail(@),
                     !.toPage = Append(@, WorkerReply(kind, store,
                                              Head(channel.toWorker).hash))]
    /\ UNCHANGED evals
    /\ UNCHANGED beyondMsg

\* the worker takes the next request and never replies (its cache lookup
\* rejects, or the client is gone)
WorkerSilent ==
    /\ channel.toWorker # <<>>
    /\ channel' = [channel EXCEPT !.toWorker = Tail(@)]
    /\ UNCHANGED evals
    /\ UNCHANGED beyondMsg

\* a message event reaches the page: every registered messageHandler sees it,
\* and the callbacks of the promises it settles run
PageReceive ==
    /\ channel.toPage # <<>>
    /\ channel' = [channel EXCEPT !.toPage = Tail(@)]
    /\ evals' = [i \in 1..Len(evals) |->
                    IF evals[i].state = "pending"
                    THEN messageHandler(domConfig, evals[i],
                                        Head(channel.toPage))
                    ELSE evals[i]]
    /\ UNCHANGED beyondMsg

InitEval ==
    /\ domConfig \in {setPatternsFromConfig(c) : c \in EvalConfigs}
    /\ isPatched = FALSE
    /\ script = <<>>
    /\ domLast = <<>>
    /\ config = NewScriptBlocker(<<>>)
    /\ blockedScripts = <<>>
    /\ store = WorkerStore
    /\ last = NoCall
    /\ decided = {}
    /\ channel \in [controller : BOOLEAN, toWorker : {<<>>}, toPage : {<<>>}]
    /\ evals = <<>>
    /\ CacheIdle /\ PiIdle /\ MonIdle /\ AnIdle /\ WrIdle /\ FhIdle /\ RegIdle
    /\ MmIdle
    /\ RepIdle
    /\ CallIdle

NextEval ==
    \/ \E code \in EvalTexts : EvalCall(code)
    \/ \E kind \in {"url", "response", "error"} : WorkerAnswer(kind)
    \/ WorkerSilent
    \/ PageReceive

SpecEval == InitEval /\ [][NextEval]_vars

-----------------------------------------------------------------------------
(* The mutation monitor: class PageIntegrity of index.ts (script registry,
   mutation authorization, recorded content updates, read accessors) *)

\* window.location.origin of the page, and the origins scripts come from
Origin(u) == u.protocol \o SlashSlash \o u.hostname
OriginPage == Https \o SlashSlash \o PageHost
OriginCdn  == Https \o SlashSlash \o HostOk
OriginEvil == Https \o SlashSlash \o HostBad

\* the bytes of content that the first 32 characters of btoa(content) encode
HashedBytes == 24

\* the text of script.src
SrcText(src) ==
    CASE src.kind = "none" -> <<>>
      [] src.kind = "invalid" -> <<"?">>
      [] OTHER -> Href(src)

\* calculateScriptHash(script): btoa(src + type + textContent).slice(0, 32);
\* base64 is one-to-one on byte prefixes, so the hash stands for the first
\* HashedBytes bytes of the content
calculateScriptHash(s) ==
    LET content == SrcText(s.src) \o s.type \o s.textContent
    IN  IF Len(content) <= HashedBytes THEN content
        ELSE SubSeq(content, 1, HashedBytes)

\* Map.prototype.has / get / set on the script registry, a Map kept as the
\* sequence of its values in insertion order
RegistryHas(reg, hash) == \E k \in 1..Len(reg) : reg[k].hash = hash
RegistryGet(reg, hash) ==
    reg[CHOOSE k \in 1..Len(reg) : reg[k].hash = hash]
RegistrySet(reg, info) ==
    IF RegistryHas(reg, info.hash)
    THEN [k \in 1..Len(reg) |->
             IF reg[k].hash = info.hash THEN info ELSE reg[k]]
    ELSE Append(reg, info)

\* { ...defaults, ...config }
Spread(defaults, cfg) ==
    [f \in DOMAIN defaults \cup DOMAIN cfg |->
        IF f \in DOMAIN cfg THEN cfg[f] ELSE defaults[f]]

UpperLetters ==
    <<"A", "B", "C", "D", "E", "F", "G", "H", "I", "J", "K", "L", "M",
      "N", "O", "P", "Q", "R", "S", "T", "U", "V", "W", "X", "Y", "Z">>
LowerLetters ==
    <<"a", "b", "c", "d", "e", "f", "g", "h", "i", "j", "k", "l", "m",
      "n", "o", "p", "q", "r", "s", "t", "u", "v", "w", "x", "y", "z">>

\* String.prototype.toLowerCase
ToLowerCase(s) ==
    [k \in 1..Len(s) |->
        IF \E j \in 1..Len(UpperLetters) : UpperLetters[j] = s[k]
        THEN LowerLetters[CHOOSE j \in 1..Len(UpperLetters) :
                              UpperLetters[j] = s[k]]
        ELSE s[k]]

\* an attribute pattern /^prefix[a-z-]+$/ and RegExp.prototype.test on it
AttributePattern(prefix) == [prefix |-> prefix]
PatternTest(pattern, name) ==
    /\ StartsWith(name, pattern.prefix)
    /\ Len(name) > Len(pattern.prefix)
    /\ \A k \in (Len(pattern.prefix) + 1)..Len(name) :
          \/ name[k] = "-"
          \/ \E j \in 1..Len(LowerLetters) : LowerLetters[j] = name[k]

TagDiv == <<"d", "i", "v">>
AttrClass == <<"c", "l", "a", "s", "s">>
AttrDataX == <<"d", "a", "t", "a", "-", "x">>
AttrOnClick == <<"o", "n", "c", "l", "i", "c", "k">>

\* the allowedMutations the constructor defaults to
DefaultAllowedMutations ==
    [elementTypes |-> {TagDiv, <<"s", "p", "a", "n">>, <<"p">>, <<"a">>,
                       <<"i", "m", "g">>,
                       <<"b", "u", "t", "t", "o", "n">>},
     attributes |-> {AttrClass, <<"s", "t", "y", "l", "e">>,
                     <<"s", "r", "c">>, <<"h", "r", "e", "f">>,
                     <<"a", "l", "t">>},
     patterns |-> {AttributePattern(<<"d", "a", "t", "a", "-">>)}]

\* new PageIntegrity(config) before the document's scripts are registered
NewMonitor(cfg) ==
    LET c == Spread([strictMode |-> FALSE,
                     allowedMutations |-> DefaultAllowedMutations], cfg)
    IN  [config |-> c,
         allowedOrigins |-> {OriginPage} \cup c.whitelistedHosts,
         scriptRegistry |-> <<>>,
         loadOrder |-> 0,
         contentUpdates |-> <<>>,
         isMonitoring |-> FALSE]

\* registerScript(script); the script texts of the model hold no import,
\* require or define, so extractDependencies gives no dependency
registerScript(m, s) ==
    IF s.src.kind = "none" THEN m
    ELSE IF s.src.kind = "invalid" THEN m
    ELSE [m EXCEPT
            !.scriptRegistry =
                RegistrySet(@, [hash |-> calculateScriptHash(s),
                                origin |-> Origin(s.src),
                                type |-> IF s.type = <<>>
                                         THEN "text/javascript" ELSE "custom",
                                loadOrder |-> m.loadOrder,
                                dependencies |-> <<>>]),
            !.loadOrder = @ + 1]

\* getExecutingScriptHash(): the first stack line and, within it, the first
\* registry entry in insertion order whose origin the line includes
RECURSIVE FirstIncluded(_, _, _)
FirstIncluded(reg, k, line) ==
    IF k > Len(reg) THEN <<>>
    ELSE IF Includes(line, reg[k].origin) THEN reg[k].hash
    ELSE FirstIncluded(reg, k + 1, line)

RECURSIVE getExecutingScriptHashFrom(_, _, _)
getExecutingScriptHashFrom(m, stack, i) ==
    IF i > Len(stack) THEN <<>>
    ELSE LET hash == FirstIncluded(m.scriptRegistry, 1, stack[i])
         IN  IF hash # <<>> THEN hash
             ELSE getExecutingScriptHashFrom(m, stack, i + 1)

getExecutingScriptHash(m, stack) == getExecutingScriptHashFrom(m, stack, 1)

\* what a call returned, or that it threw
Returned(value) == [threw |-> FALSE, value |-> value]
Thrown == [threw |-> TRUE, value |-> FALSE]

\* the attribute check of isAllowedMutation
isAllowedAttribute(m, attributeName) ==
    \/ attributeName \in m.config.allowedMutations.attributes
    \/ \E pattern \in m.config.allowedMutations.patterns :
          PatternTest(pattern, attributeName)

\* isAllowedMutation without the check of the registered script's origin
isAllowedMutationAnyOrigin(m, mutation, scriptHash) ==
    IF ~m.config.strictMode THEN Returned(TRUE)
    ELSE IF ~RegistryHas(m.scriptRegistry, scriptHash) THEN Returned(FALSE)
    ELSE IF mutation.target.nodeType # "element" THEN Thrown
    ELSE IF ToLowerCase(mutation.target.tagName)
               \notin m.config.allowedMutations.elementTypes
         THEN Returned(FALSE)
    ELSE IF mutation.type = "attributes"
         THEN IF mutation.attributeName = <<>> THEN Returned(FALSE)
              ELSE Returned(isAllowedAttribute(m, mutation.attributeName))
    ELSE Returned(TRUE)

\* isAllowedMutation(mutation, scriptHash); a target that is not an element
\* has no tagName, and target.tagName.toLowerCase() throws a TypeError
isAllowedMutation(m, mutation, scriptHash) ==
    IF ~m.config.strictMode THEN Returned(TRUE)
    ELSE IF ~RegistryHas(m.scriptRegistry, scriptHash) THEN Returned(FALSE)
    ELSE IF RegistryGet(m.scriptRegistry, scriptHash).origin
               \notin m.allowedOrigins
         THEN Returned(FALSE)
    ELSE IF mutation.target.nodeType # "element" THEN Thrown
    ELSE IF ToLowerCase(mutation.target.tagName)
               \notin m.config.allowedMutations.elementTypes
         THEN Returned(FALSE)
    ELSE IF mutation.type = "attributes"
         THEN IF mutation.attributeName = <<>> THEN Returned(FALSE)
              ELSE Returned(isAllowedAttribute(m, mutation.attributeName))
    ELSE Returned(TRUE)

\* the nodes mutations touch: a <div>, a <table> and the text inside the div
NoNode    == [id |-> 0, nodeType |-> "none", tagName |-> <<>>, parent |-> 0]
NodeDiv   == [id |-> 1, nodeType |-> "element",
              tagName |-> <<"D", "I", "V">>, parent |-> 0]
NodeTable == [id |-> 2, nodeType |-> "element",
              tagName |-> <<"T", "A", "B", "L", "E">>, parent |-> 0]
NodeText  == [id |-> 3, nodeType |-> "text", tagName |-> <<>>, parent |-> 1]
Nodes == {NodeDiv, NodeTable, NodeText}
NodeById(id) == CHOOSE n \in Nodes : n.id = id

\* a MutationRecord; a null attributeName is the empty name
MutationRecord(type, target, attributeName, addedNodes, removedNodes) ==
    [type |-> type, target |-> target, attributeName |-> attributeName,
     addedNodes |-> addedNodes, removedNodes |-> removedNodes]

\* recordUpdate(target, type, scriptHash): the target's array, or a new one,
\* gets the update pushed and is (re)entered in contentUpdates; the
\* timestamp and the neighbours of the target are left out of MutationInfo
recordUpdate(m, target, type, scriptHash) ==
    LET update == [target |-> target.id, type |-> type,
                   scriptHash |-> scriptHash]
        updates == IF target.id \in DOMAIN m.contentUpdates
                   THEN m.contentUpdates[target.id] ELSE <<>>
    IN  [m EXCEPT !.contentUpdates =
            MapSet(@, target.id, Append(updates, update))]

\* nodes.forEach(node => node instanceof Element && recordUpdate(node, type))
RECURSIVE recordEach(_, _, _, _, _)
recordEach(m, nodes, k, type, scriptHash) ==
    IF k > Len(nodes) THEN m
    ELSE recordEach(IF nodes[k].nodeType = "element"
                    THEN recordUpdate(m, nodes[k], type, scriptHash)
                    ELSE m,
                    nodes, k + 1, type, scriptHash)

\* handleMutation(mutation), run with the given stack: the monitor it
\* leaves, what isAllowedMutation returned (or that it threw, which ends
\* the handler), and the script hash it worked with
handleMutation(m, mutation, stack) ==
    LET scriptHash == getExecutingScriptHash(m, stack)
        isAllowed == isAllowedMutation(m, mutation, scriptHash)
        isElement == mutation.target.nodeType = "element"
        recorded ==
            CASE mutation.type = "childList" ->
                   LET a == recordEach(m, mutation.addedNodes, 1, "insert",
                                       scriptHash)
                       r == recordEach(a, mutation.removedNodes, 1, "remove",
                                       scriptHash)
                   IN  IF isElement
                       THEN recordUpdate(r, mutation.target, "update",
                                         scriptHash)
                       ELSE r
              [] mutation.type = "attributes" /\ isElement ->
                   recordUpdate(m, mutation.target, "update", scriptHash)
              [] mutation.type = "characterData"
                   /\ mutation.target.parent # 0 ->
                   recordUpdate(m, NodeById(mutation.target.parent),
                                "update", scriptHash)
              [] OTHER -> m
    IN  IF isAllowed.threw
        THEN [monitor |-> m, result |-> Thrown, hash |-> scriptHash]
        ELSE [monitor |-> recorded, result |-> isAllowed, hash |-> scriptHash]

\* initializeScriptRegistry(): registerScript for every script of the document
RECURSIVE initializeScriptRegistry(_, _, _)
initializeScriptRegistry(m, scripts, k) ==
    IF k > Len(scripts) THEN m
    ELSE initializeScriptRegistry(registerScript(m, scripts[k]), scripts,
                                  k + 1)

\* Array.from(map.values())
RECURSIVE MapValues(_)
MapValues(map) ==
    IF DOMAIN map = {} THEN <<>>
    ELSE LET key == CHOOSE k \in DOMAIN map : TRUE
         IN  <<map[key]>>
                \o MapValues([k \in DOMAIN map \ {key} |-> map[k]])

\* what an accessor handed to host code: the live array the monitor keeps
\* for the node of that id (alias), or a container of its own (value)
Handle(kind, alias, value) == [kind |-> kind, alias |-> alias, value |-> value]
NoHandle == Handle("none", 0, <<>>)

\* getContentUpdates(element): this.contentUpdates.get(element) || []
getContentUpdates(m, element) ==
    IF element.id \in DOMAIN m.contentUpdates
    THEN Handle("updates", element.id, <<>>)
    ELSE Handle("updates", 0, <<>>)

\* getConfig(): { ...this.config }
getConfig(m) == Handle("config", 0, Spread(m.config, <<>>))

\* getScriptRegistry(): new Map(this.scriptRegistry)
getScriptRegistry(m) == Handle("registry", 0, m.scriptRegistry)

\* ScriptBlocker.getAllBlockedScripts(): Array.from(blockedScripts.values())
getAllBlockedScripts(blocked) == Handle("blocked", 0, MapValues(blocked))

\* the configurations the monitor is built with
CustomAllowedMutations ==
    [elementTypes |-> {<<"t", "a", "b", "l", "e">>},
     attributes |-> {AttrOnClick},
     patterns |-> {}]

MonitorConfigs ==
    { [f \in {"whitelistedHosts"} \cup s \cup a |->
          CASE f = "whitelistedHosts" -> w
            [] f = "strictMode" -> TRUE
            [] f = "allowedMutations" -> CustomAllowedMutations] :
      w \in {{}, {OriginCdn}},
      s \in SUBSET {"strictMode"}, a \in SUBSET {"allowedMutations"} }

\* script elements: external ones of three origins, an inline one, and one
\* whose src new URL() rejects
MonScript(src, text) == [src |-> src, type |-> <<>>, textContent |-> text]
ScriptPage    == MonScript(Url(Https, PageHost), <<>>)
ScriptCdn     == MonScript(Url(Https, HostOk), <<>>)
ScriptEvil    == MonScript(Url(Https, HostBad), <<>>)
ScriptInline  == MonScript(NoUrl, <<"x">>)
ScriptInvalid == MonScript(InvalidUrl, <<>>)

\* the scripts of the document at construction, and those added later
Documents == {<<>>, <<ScriptPage>>}
AddedScripts == {ScriptCdn, ScriptEvil, ScriptInline, ScriptInvalid}

\* the script hashes isAllowedMutation is called with
ScriptHashes ==
    {<<>>} \cup {calculateScriptHash(s) : s \in {ScriptPage, ScriptCdn,
                                                   ScriptEvil}}

\* the mutation records the observer delivers
NoMutation == MutationRecord("none", NoNode, <<>>, <<>>, <<>>)
Mutations ==
    {MutationRecord("attributes", NodeDiv, n, <<>>, <<>>) :
        n \in {AttrClass, AttrDataX, AttrOnClick, <<>>}}
    \cup
    {MutationRecord("attributes", NodeTable, AttrOnClick, <<>>, <<>>),
     MutationRecord("childList", NodeDiv, <<>>, <<NodeTable>>, <<>>),
     MutationRecord("childList", NodeDiv, <<>>, <<>>, <<NodeText>>),
     MutationRecord("characterData", NodeText, <<>>, <<>>, <<>>)}

\* new Error().stack inside the observer callback: no script frame, or a
\* frame of a script of the page
Stacks == {<<>>, <<Href(Url(Https, PageHost))>>}

\* the monitor's state as host code can observe it through its operations
InternalView ==
    [config |-> monitor.config,
     allowedOrigins |-> monitor.allowedOrigins,
     scriptRegistry |-> monitor.scriptRegistry,
     loadOrder |-> monitor.loadOrder,
     contentUpdates |-> monitor.contentUpdates,
     blockedScripts |-> blockedScripts]

\* what the last monitor-side operation was: its result, and the script hash
\* and the mutation it was about
MonCall(op, result, hash, mutation) ==
    [op |-> op, result |-> result, hash |-> hash, mutation |-> mutation]

\* MutationInfo entries held by the monitor's arrays
RECURSIVE TotalUpdatesOf(_)
TotalUpdatesOf(cu) ==
    IF DOMAIN cu = {} THEN 0
    ELSE LET id == CHOOSE k \in DOMAIN cu : TRUE
         IN  Len(cu[id]) + TotalUpdatesOf([k \in DOMAIN cu \ {id} |-> cu[k]])
TotalUpdates == TotalUpdatesOf(monitor.contentUpdates)

\* a script element is added to the document: monitorScriptAdditions
RegisterScript(s) ==
    /\ monitor.loadOrder < MaxScripts
    /\ monitor' = registerScript(monitor, s)
    /\ monLast' = MonCall("registerScript", Returned(FALSE),
                          calculateScriptHash(s), NoMutation)
    /\ UNCHANGED held
    /\ UNCHANGED beyondMon

\* startMonitoring()
StartMonitoring ==
    /\ ~monitor.isMonitoring
    /\ monitor' = [monitor EXCEPT !.isMonitoring = TRUE]
    /\ monLast' = MonCall("startMonitoring", Returned(FALSE), <<>>, NoMutation)
    /\ UNCHANGED held
    /\ UNCHANGED beyondMon

\* the observer of startMonitoring delivers a mutation to handleMutation
HandleMutation(mutation, stack) ==
    /\ monitor.isMonitoring
    /\ TotalUpdates < MaxUpdates
    /\ LET h == handleMutation(monitor, mutation, stack)
       IN  /\ monitor' = h.monitor
           /\ monLast' = MonCall("handleMutation", h.result, h.hash,
                                 mutation)
    /\ UNCHANGED held
    /\ UNCHANGED beyondMon

\* isAllowedMutation(mutation, scriptHash) called on its own
IsAllowedMutation(mutation, scriptHash) ==
    /\ monLast' = MonCall("isAllowedMutation",
                          isAllowedMutation(monitor, mutation, scriptHash),
                          scriptHash, mutation)
    /\ UNCHANGED <<monitor, held>>
    /\ UNCHANGED beyondMon

\* host code calls one of the read accessors and keeps what it returns
Accessor(op, handle) ==
    /\ held' = handle
    /\ monLast' = MonCall(op, Returned(FALSE), <<>>, NoMutation)
    /\ UNCHANGED monitor
    /\ UNCHANGED beyondMon

GetContentUpdates(element) ==
    Accessor("getContentUpdates", getContentUpdates(monitor, element))
GetConfig == Accessor("getConfig", getConfig(monitor))
GetScriptRegistry == Accessor("getScriptRegistry", getScriptRegistry(monitor))
GetAllBlockedScripts ==
    Accessor("getAllBlockedScripts", getAllBlockedScripts(blockedScripts))

\* clearContentUpdates(): this.contentUpdates.clear(); an array host code
\* still holds is from then on the host's alone
ClearContentUpdates ==
    /\ monitor.contentUpdates # <<>>
    /\ monitor' = [monitor EXCEPT !.contentUpdates = <<>>]
    /\ held' = IF held.alias # 0
               THEN Handle(held.kind, 0, monitor.contentUpdates[held.alias])
               ELSE held
    /\ monLast' = MonCall("clearContentUpdates", Returned(FALSE), <<>>,
                          NoMutation)
    /\ UNCHANGED beyondMon

\* the entry host code adds to a container it holds
HostEntry(kind) ==
    CASE kind = "updates" ->
           [target |-> 0, type |-> "host", scriptHash |-> <<>>]
      [] kind = "registry" ->
           [hash |-> <<"h">>, origin |-> OriginEvil, type |-> "custom",
            loadOrder |-> 0, dependencies |-> <<>>]
      [] OTHER -> [url |-> <<"h">>, reason |-> "host"]

\* host code adds an entry to, removes one from, or clears a container:
\* push / pop / length = 0 on an array, set / delete / clear on a Map,
\* assigning or deleting properties on an object
Mutated(container, kind, change) ==
    IF kind = "config"
    THEN CASE change = "add" -> Spread(container, [extra |-> TRUE])
           [] change = "remove" ->
                [f \in DOMAIN container \ {"strictMode"} |-> container[f]]
           [] OTHER -> <<>>
    ELSE CASE change = "add" -> Append(container, HostEntry(kind))
           [] change = "remove" ->
                IF container = <<>> THEN container
                ELSE SubSeq(container, 1, Len(container) - 1)
           [] OTHER -> <<>>

HostMutate(change) ==
    /\ held.kind # "none"
    /\ change = "add" =>
          IF held.alias # 0 THEN TotalUpdates < MaxUpdates
          ELSE IF held.kind = "config" THEN "extra" \notin DOMAIN held.value
          ELSE Len(held.value) < MaxUpdates
    /\ IF held.alias # 0
       THEN /\ monitor' = [monitor EXCEPT !.contentUpdates[held.alias] =
                              Mutated(@, held.kind, change)]
            /\ held' = held
       ELSE /\ held' = [held EXCEPT
                          !.value = Mutated(@, held.kind, change)]
            /\ monitor' = monitor
    /\ monLast' = MonCall("hostMutate", Returned(FALSE), <<>>, NoMutation)
    /\ UNCHANGED beyondMon

InitMonitor ==
    /\ monitor \in {initializeScriptRegistry(NewMonitor(c), doc, 1) :
                      c \in MonitorConfigs, doc \in Documents}
    /\ held = NoHandle
    /\ monLast = MonCall("none", Returned(FALSE), <<>>, NoMutation)
    /\ EngineIdle /\ CacheIdle /\ DomIdle /\ PiIdle /\ MsgIdle /\ AnIdle
    /\ MmIdle
    /\ RepIdle
    /\ CallIdle
    /\ RegIdle
    /\ FhIdle
    /\ WrIdle

NextMonitor ==
    \/ \E s \in AddedScripts : RegisterScript(s)
    \/ \E mutation \in Mutations, scriptHash \in ScriptHashes :
          IsAllowedMutation(mutation, scriptHash)

SpecMonitor == InitMonitor /\ [][NextMonitor]_vars

-----------------------------------------------------------------------------
(* The read accessors of the monitor and of the decision engine, and host
   code changing the containers they return *)

\* the monitors host code reads from: built over a document with one script
AccessorConfigs ==
    {[whitelistedHosts |-> {}],
     [whitelistedHosts |-> {OriginCdn}, strictMode |-> TRUE]}

\* the mutations delivered while host code reads
AccessorMutations ==
    {MutationRecord("attributes", NodeDiv, AttrClass, <<>>, <<>>),
     MutationRecord("childList", NodeDiv, <<>>, <<NodeTable>>, <<>>)}

\* the changes host code makes to a container it holds
Changes == {"add", "remove", "clear"}

InitAccessors ==
    /\ monitor \in {initializeScriptRegistry(NewMonitor(c), <<ScriptPage>>, 1) :
                      c \in AccessorConfigs}
    /\ held = NoHandle
    /\ monLast = MonCall("none", Returned(FALSE), <<>>, NoMutation)
    /\ EngineIdle /\ CacheIdle /\ DomIdle /\ PiIdle /\ MsgIdle /\ AnIdle
    /\ MmIdle
    /\ RepIdle
    /\ CallIdle
    /\ RegIdle
    /\ FhIdle
    /\ WrIdle

NextAccessors ==
    \/ StartMonitoring
    \/ \E mutation \in AccessorMutations, stack \in Stacks :
          HandleMutation(mutation, stack)
    \/ \E element \in {NodeDiv, NodeTable} : GetContentUpdates(element)
    \/ GetConfig
    \/ GetScriptRegistry
    \/ GetAllBlockedScripts
    \/ ClearContentUpdates
    \/ \E change \in Changes : HostMutate(change)
    \/ ShouldBlockScript(UrlN, Benign)

SpecAccessors == InitAccessors /\ [][NextAccessors]_vars

-----------------------------------------------------------------------------
(* The monitor with first-party classification: the PageIntegrity class
   whose registerScript reports extension and dynamic inline scripts *)

MozExtension ==
    <<"m", "o", "z", "-", "e", "x", "t", "e", "n", "s", "i", "o", "n",
      ":">>
SafariExtension ==
    <<"s", "a", "f", "a", "r", "i", "-", "e", "x", "t", "e", "n", "s",
      "i", "o", "n", ":">>
MsBrowserExtension ==
    <<"m", "s", "-", "b", "r", "o", "w", "s", "e", "r", "-", "e", "x",
      "t", "e", "n", "s", "i", "o", "n", ":">>
Chrome ==
    <<"c", "h", "r", "o", "m", "e", ":">>
Moz ==
    <<"m", "o", "z", ":">>
Safari ==
    <<"s", "a", "f", "a", "r", "i", ":">>
MsBrowser ==
    <<"m", "s", "-", "b", "r", "o", "w", "s", "e", "r", ":">>

\* extensionPatterns: the schemes /^scheme:\/\// is written for
extensionPatterns ==
    {ChromeExtension, MozExtension, SafariExtension, MsBrowserExtension,
     Chrome, Moz, Safari, MsBrowser}

\* isExtensionScript(url)
isExtensionScript(url) ==
    \E scheme \in extensionPatterns : StartsWith(url, scheme \o SlashSlash)

\* getScriptSource(script)
getScriptSource(s) ==
    IF isExtensionScript(SrcText(s.src)) THEN "extension"
    ELSE IF s.src.kind = "none" /\ s.textContent # <<>> THEN "inline"
    ELSE "external"

\* recordInitialScripts(): the hashes of the scripts of the document
recordInitialScripts(scripts) ==
    {calculateScriptHash(scripts[k]) : k \in 1..Len(scripts)}

\* what registerScript leaves: the monitor and the onBlocked calls it made
Registered2(m, events) == [monitor |-> m, events |-> events]

\* registerScript(script) of this class; an inline script is given the url of
\* the page (new URL(window.location.href)), and a src that new URL()
\* rejects ends in the catch
registerScript2(m, s) ==
    IF s.src.kind = "none" /\ s.textContent = <<>> THEN Registered2(m, <<>>)
    ELSE IF s.src.kind = "invalid" THEN Registered2(m, <<>>)
    ELSE
    LET origin == IF s.src.kind = "url" THEN Origin(s.src) ELSE OriginPage
        hash == calculateScriptHash(s)
        source == getScriptSource(s)
        isExtension == source = "extension"
        isFirstParty == hash \in m.initialScripts
                           \/ origin \in m.allowedOrigins
        extensionBlocked == isExtension /\ m.config.blockExtensions
        inlineBlocked == /\ source = "inline"
                         /\ ~isFirstParty
                         /\ ~m.config.allowDynamicInline
        registered ==
            [m EXCEPT
               !.scriptRegistry =
                   RegistrySet(@, [hash |-> hash, origin |-> origin,
                                   type |-> IF s.type = <<>>
                                            THEN "text/javascript"
                                            ELSE "custom",
                                   loadOrder |-> m.loadOrder,
                                   dependencies |-> <<>>,
                                   source |-> source,
                                   isExtension |-> isExtension,
                                   isFirstParty |-> isFirstParty]),
               !.loadOrder = @ + 1]
    IN  IF extensionBlocked /\ m.config.strictMode
        THEN Registered2(m, <<"extension">>)
        ELSE IF inlineBlocked /\ m.config.strictMode
        THEN Registered2(m, (IF extensionBlocked THEN <<"extension">>
                             ELSE <<>>) \o <<"dynamic-inline">>)
        ELSE Registered2(registered,
                         (IF extensionBlocked THEN <<"extension">> ELSE <<>>)
                            \o (IF inlineBlocked THEN <<"dynamic-inline">>
                                ELSE <<>>))

\* initializeScriptRegistry() of this class
RECURSIVE initializeScriptRegistry2(_, _, _)
initializeScriptRegistry2(r, scripts, k) ==
    IF k > Len(scripts) THEN r
    ELSE LET next == registerScript2(r.monitor, scripts[k])
         IN  initializeScriptRegistry2(
                 Registered2(next.monitor, r.events \o next.events),
                 scripts, k + 1)

\* new PageIntegrity(config) of this class in a document with the given
\* scripts
NewMonitor2(cfg, scripts) ==
    LET c == Spread([strictMode |-> FALSE,
                     whitelistedHosts |-> {},
                     blockExtensions |-> TRUE,
                     allowDynamicInline |-> FALSE,
                     allowedMutations |-> DefaultAllowedMutations], cfg)
    IN  initializeScriptRegistry2(
            Registered2([config |-> c,
                         allowedOrigins |-> {OriginPage}
                                               \cup c.whitelistedHosts,
                         scriptRegistry |-> <<>>,
                         loadOrder |-> 0,
                         contentUpdates |-> <<>>,
                         isMonitoring |-> FALSE,
                         initialScripts |-> recordInitialScripts(scripts)],
                        <<>>),
            scripts, 1)

\* the configurations this class is built with
InlineConfigs ==
    { [f \in s \cup w \cup x \cup d |->
          CASE f = "strictMode" -> TRUE
            [] f = "whitelistedHosts" -> {OriginCdn}
            [] f = "blockExtensions" -> FALSE
            [] f = "allowDynamicInline" -> TRUE] :
      s \in SUBSET {"strictMode"}, w \in SUBSET {"whitelistedHosts"},
      x \in SUBSET {"blockExtensions"}, d \in SUBSET {"allowDynamicInline"} }

ScriptInlineY   == MonScript(NoUrl, <<"y">>)
ScriptEmpty     == MonScript(NoUrl, <<>>)
ScriptExtension == MonScript(Url(ChromeExtension, HostExt), <<>>)

\* the scripts of the document at construction, and those added later
InlineDocuments == {<<>>, <<ScriptPage>>, <<ScriptPage, ScriptInline>>}
InlineAdded ==
    {ScriptInline, ScriptInlineY, ScriptEmpty, ScriptCdn, ScriptEvil,
     ScriptExtension, ScriptInvalid}

\* what the last registration was: the script, its hash, the onBlocked
\* calls made for it, and whether the script was added after construction
InlineCall(op, s, events, dynamic) ==
    [op |-> op, script |-> s, hash |-> calculateScriptHash(s),
     events |-> events, dynamic |-> dynamic]

\* a script element is added to the document after construction: the
\* observer of monitorScriptAdditions hands it to registerScript
RegisterScript2(s) ==
    /\ monitor.loadOrder < MaxScripts
    /\ LET r == registerScript2(monitor, s)
       IN  /\ monitor' = r.monitor
           /\ monLast' = InlineCall("registerScript", s, r.events, TRUE)
    /\ UNCHANGED held
    /\ UNCHANGED beyondMon

InitInline ==
    /\ \E c \in InlineConfigs, doc \in InlineDocuments :
          LET r == NewMonitor2(c, doc)
          IN  /\ monitor = r.monitor
              /\ monLast = InlineCall("constructor", ScriptEmpty, r.events,
                                      FALSE)
    /\ held = NoHandle
    /\ EngineIdle /\ CacheIdle /\ DomIdle /\ PiIdle /\ MsgIdle /\ AnIdle
    /\ MmIdle
    /\ RepIdle
    /\ CallIdle
    /\ RegIdle
    /\ FhIdle
    /\ WrIdle

NextInline == \E s \in InlineAdded : RegisterScript2(s)

SpecInline == InitInline /\ [][NextInline]_vars

-----------------------------------------------------------------------------
(* Claims about the decision engine (specification Spec) *)

OnDenyList(url)  == SomePatternIncluded(url, config.blackListedScripts)
OnAllowList(url) == SomePatternIncluded(url, config.whiteListedScripts)
Decided == last.op = "shouldBlockScript"

\* C1: Deny precedence.  Whenever shouldBlockScript has decided a url that
\* matches both a deny pattern and an allow pattern, whatever the content and
\* the cache hold, it returned blocked with reason 'Blacklisted script'
\* without consulting the cache or the analyzer.
C1_DenyPrecedence ==
    (Decided /\ OnDenyList(last.url) /\ OnAllowList(last.url))
        => /\ last.blocked
           /\ last.reason = "Blacklisted script"
           /\ ~last.cacheRead
           /\ ~last.analyzed

\* a url on both lists has been decided while the cache holds an analysis
\* for the very content passed
C1_Witness ==
    /\ Decided /\ OnDenyList(last.url) /\ OnAllowList(last.url)
    /\ last.blocked
    /\ getCachedResponse(store, createHash(last.content)).analysis.present

\* C2, as stated: every url that matches an allow pattern is let through
\* silently: blocked = false, no analysis, no onBlocked call.
C2_AllowListSilence ==
    (Decided /\ OnAllowList(last.url))
        => /\ ~last.blocked
           /\ ~last.analyzed
           /\ last.notified = 0

\* C2, amended: every url that matches an allow pattern and no deny pattern
\* is let through silently: blocked = false, reason 'Whitelisted script',
\* no analysis, no onBlocked call.
C2_AllowListSilenceUnlessDenied ==
    (Decided /\ OnAllowList(last.url) /\ ~OnDenyList(last.url))
        => /\ ~last.blocked
           /\ last.reason = "Whitelisted script"
           /\ ~last.analyzed
           /\ last.notified = 0

\* an allow-listed url was decided with a text the analyzer would flag, by an
\* engine that has an onBlocked callback
C2_Witness ==
    /\ Decided /\ OnAllowList(last.url) /\ ~OnDenyList(last.url)
    /\ Has(config, "onBlocked")
    /\ last.content = EvasionBypass
    /\ ~last.blocked

\* C5: Cache idempotence.  When shouldBlockScript is called twice in
\* succession with the same url (on neither list) and the same content, the
\* second call returns the first call's verdict and does not run the
\* Content Analyzer again.
C5_CacheIdempotence ==
    [][ ( /\ Decided
          /\ last'.op = "shouldBlockScript"
          /\ last'.n = last.n + 1
          /\ last'.url = last.url
          /\ last'.content = last.content
          /\ ~OnDenyList(last.url) /\ ~OnAllowList(last.url) )
        => ( /\ last'.blocked = last.blocked
             /\ ~last'.analyzed ) ]_vars

\* C25: every decision is recorded: once shouldBlockScript(url, content) has
\* resolved, with whatever outcome, the map has an entry for url;
\* getBlockedScriptsCount() is the number of distinct urls decided since the
\* last clearBlockedScripts(), and clearBlockedScripts() brings it to 0.
C25_DecisionsRecorded ==
    /\ last.op = "shouldBlockScript"
          => isScriptBlocked(blockedScripts, last.url)
    /\ getBlockedScriptsCount(blockedScripts) = Cardinality(decided)
    /\ last.op = "clearBlockedScripts"
          => getBlockedScriptsCount(blockedScripts) = 0

\* an allow-listed url was decided after a clear that followed another
\* decision
C25_Witness ==
    /\ last.op = "shouldBlockScript" /\ last.n = 3
    /\ last.reason = "Whitelisted script"
    /\ getBlockedScriptsCount(blockedScripts) = 1

\* the cache entry the last shouldBlockScript call read for its content
CachedForLast == getCachedResponse(store, createHash(last.content))

\* the last shouldBlockScript call got past the lists and found a cached
\* analysis for its content
DecidedWithCachedAnalysis ==
    /\ last.op = "shouldBlockScript" /\ last.cacheRead
    /\ CachedForLast.found /\ CachedForLast.analysis.present

\* C26: a cached analysis is judged with the thresholds a fresh one is judged
\* with: whatever minScore and maxThreats the instance is configured with, a
\* call that finds a cached analysis with score s and threats t blocks exactly
\* when s >= minScore or |t| >= maxThreats.
C26_CachedJudgedLikeFresh ==
    DecidedWithCachedAnalysis
        => (last.blocked <=>
              \/ CachedForLast.analysis.score >= config.analysisConfig.minScore
              \/ Len(CachedForLast.analysis.threats)
                    >= config.analysisConfig.maxThreats)

\* C27: a fresh analysis is cached: when shouldBlockScript(url, content) ran
\* the Content Analyzer, then once it has resolved the cache holds an entry
\* under createHash(content) with url and that analysis, which
\* getCachedResponse(createHash(content)) returns.
C27_FreshAnalysisCached ==
    (last.op = "shouldBlockScript" /\ last.analyzed)
        => /\ CachedForLast.found
           /\ CachedForLast.url = last.url
           /\ CachedForLast.analysis =
                 analyzeScript(last.content, config.analysisConfig)

-----------------------------------------------------------------------------
(* Claims about the cache manager (specification SpecCache) *)

Distinct(seq) == \A i, j \in 1..Len(seq) : i # j => seq[i] # seq[j]
StoredKeys == {store[i].key : i \in 1..Len(store)}

\* C6: Eviction bound.  After any sequence of completed cacheResponse calls
\* the store holds at most maxSize keys, and after maxSize + 1 calls with
\* pairwise distinct hashes from an empty store it holds exactly maxSize
\* keys, the first-inserted hash not among them.
C6_EvictionBound ==
    /\ Len(store) <= maxSize
    /\ (Len(putLog) = maxSize + 1 /\ Distinct(putLog))
          => /\ Len(store) = maxSize
             /\ putLog[1] \notin StoredKeys
             /\ \A i \in 2..Len(putLog) : putLog[i] \in StoredKeys

\* maxSize + 1 distinct hashes have been cached starting from an empty store
C6_Witness ==
    /\ Len(putLog) = maxSize + 1 /\ Distinct(putLog)
    /\ Len(store) = maxSize

-----------------------------------------------------------------------------
(* Claims about the URL-centric DOM blocker (specification SpecDom) *)

SrcHostname == ParseURL(script.src).hostname
HookedAppend == domLast.op = "appendChild" /\ domLast.patched
SrcParsed == script.src.kind = "url"

\* C3: with blocking installed, appending a script whose src hostname is in
\* blacklistedHosts is blocked: checkAndBlockScript returns true, a configured
\* onBlocked is called exactly once, with type 'blacklisted', and the script
\* is not in the DOM afterwards.  checkAndBlockScript tests whitelistedHosts
\* first, so a hostname on both lists is appended and not reported.
C3_DenyListedAppendBlocked ==
    (HookedAppend /\ SrcParsed /\ SrcHostname \in domConfig.blockedOrigins)
        => /\ domLast.ret
           /\ ~script.inDom
           /\ Has(domConfig.config, "onBlocked")
                 => domLast.events = <<"blacklisted">>

-----------------------------------------------------------------------------
(* Claims about PageIntegrity and the interceptor (specification SpecPI) *)

\* the number of hooks of interceptor i around a global
Count(chain, i) == Cardinality({k \in 1..Len(chain) : chain[k] = i})

\* C4: whenever a decision made through the PageIntegrity instance is
\* blocked, the onBlocked callback supplied to the constructor is called.
\* mergeConfig keeps four fields and onBlocked is not one of them, so the
\* engine is built without a callback.
C4_SuppliedOnBlockedInvoked ==
    (piLast.op = "call" /\ piLast.blocked /\ Has(piSupplied, "onBlocked"))
        => piLast.notified >= 1

\* C7: once every interceptor is stopped (stop(), destroy()), each patched
\* global is again the native function, and a call made then consults no
\* decision engine and is not blocked.  stop() only clears _isRunning.
C7_Restoration ==
    (\A i \in 1..Len(running) : ~running[i])
        => /\ \A g \in Globals : globals[g] = <<>>
           /\ piLast.op = "call"
                 => piLast.consulted = <<>> /\ ~piLast.blocked

\* C8: start() on a running interceptor and stop() on a stopped one change
\* nothing, and a start()/stop()/destroy() installs one hook of the
\* interceptor around every global exactly when it takes the interceptor
\* from stopped to running, and none otherwise.
C8_StartStopIdempotence ==
    [][ piLast'.op \in {"start", "stop", "destroy"} =>
          LET i == piLast'.target
          IN  /\ (piLast'.op = "start" /\ running[i])
                    => (running' = running /\ globals' = globals)
              /\ (piLast'.op \in {"stop", "destroy"} /\ ~running[i])
                    => (running' = running /\ globals' = globals)
              /\ \A g \in Globals :
                    Count(globals'[g], i) - Count(globals[g], i)
                       = IF ~running[i] /\ running'[i] THEN 1 ELSE 0 ]_vars

\* start() was called on an interceptor that was running, and its hook is
\* around fetch once
C8_Witness ==
    /\ piLast.op = "start"
    /\ piLast.wasRunning
    /\ Count(globals["fetch"], piLast.target) = 1

\* C9: after an updateConfig, an intercepted call is decided by one engine,
\* the current one, and is blocked exactly when the new effective
\* configuration blocks it.  The new interceptor wraps the globals the
\* previous one had wrapped, so the previous engine still decides as well.
C9_DecidedByNewEngineOnly ==
    (piLast.op = "call" /\ Len(blockers) > 1)
        => LET h == Hook(piLast.global, piLast.arg)
           IN  /\ Len(piLast.consulted) <= 1
               /\ \A k \in 1..Len(piLast.consulted) :
                     piLast.consulted[k] = current
               /\ piLast.blocked
                    = /\ h.consults
                      /\ shouldBlockScript(NewScriptBlocker(piConfig), store,
                                           h.url, h.content).blocked

\* the previous configuration with the fields of partial replaced
Merged(previous, partial) ==
    [f \in DOMAIN previous \cup DOMAIN partial |->
        IF f \in DOMAIN partial THEN partial[f] ELSE previous[f]]

\* C10: updateConfig(partial) leaves the previous effective configuration
\* with exactly the fields present in partial replaced.  mergeConfig returns
\* four fields only, so an onBlocked in partial is not taken over.
C10_UpdateConfigMerges ==
    [][ piLast'.op = "updateConfig"
          => piConfig' = Merged(piConfig, piLast'.partial) ]_vars

\* C13: an intercepted eval, or setTimeout/setInterval with a string handler,
\* reaches the original function exactly when no decision made for the code
\* was blocked, and a decision is made before it does; a blocked decision
\* leaves the code unexecuted and yields undefined (eval) or 0 (timers), never
\* an exception.  A timer with a non-string handler reaches the original
\* without a decision.  This is about calls whose decisions resolve.
C13_DynamicCodeSuppression ==
    ( /\ piLast.op = "call"
      /\ piLast.global \in {"eval", "setTimeout", "setInterval"}
      /\ ~piLast.failed )
        => IF piLast.arg.kind = "string"
           THEN /\ piLast.consulted # <<>>
                /\ (piLast.outcome = "native") = ~piLast.blocked
                /\ piLast.blocked
                      => piLast.outcome = IF piLast.global = "eval"
                                          THEN "undefined" ELSE "zero"
                /\ piLast.outcome # "throw"
           ELSE /\ piLast.consulted = <<>>
                /\ ~piLast.blocked
                /\ piLast.outcome = "native"

\* a string handler given to setTimeout was judged blocked and not scheduled
C13_Witness ==
    /\ piLast.op = "call" /\ piLast.global = "setTimeout"
    /\ piLast.arg.kind = "string"
    /\ piLast.blocked
    /\ piLast.outcome = "zero"

\* the reason the engine that refused the last call gave
RefusalReason ==
    LET i == piLast.consulted[Len(piLast.consulted)]
    IN  shouldBlockScript(blockers[i].config, store, piLast.arg.text, <<>>).reason

\* C14: an intercepted fetch or XMLHttpRequest open of a url ending in '.js'
\* fails with Error 'Blocked script: <reason>' and does not reach the original
\* when a decision is blocked, and reaches the original after the decisions
\* when none is; a url that does not end in '.js' reaches the original without
\* a decision.  This is about calls whose decisions resolve.
C14_BlockedAndRejected ==
    ( /\ piLast.op = "call"
      /\ piLast.global \in {"XHR.open", "fetch"}
      /\ ~piLast.failed )
        => IF EndsWith(piLast.arg.text, DotJs)
           THEN /\ piLast.consulted # <<>>
                /\ piLast.blocked
                      => /\ piLast.outcome = "throw"
                         /\ piLast.error = <<"Blocked script: ", RefusalReason>>
                /\ ~piLast.blocked
                      => piLast.outcome = "native" /\ piLast.error = <<>>
           ELSE /\ piLast.consulted = <<>>
                /\ piLast.outcome = "native"
                /\ piLast.error = <<>>

\* a fetch of a deny-listed .js url was rejected
C14_Witness ==
    /\ piLast.op = "call" /\ piLast.global = "fetch"
    /\ EndsWith(piLast.arg.text, DotJs)
    /\ piLast.blocked
    /\ piLast.error = <<"Blocked script: ", "Blacklisted script">>

\* C15: when the engine fails while it handles an intercepted call (the
\* cache store throws), the hook catches the failure and the call goes on to
\* the original; the only failure host code can see is a 'Blocked script'
\* rejection.  The eval and timer hooks have no rejection handler and the XHR
\* and fetch hooks rethrow what they catch.
C15_EngineFailureNotPropagated ==
    (piLast.op = "call" /\ piLast.failed)
        => piLast.outcome = "native" /\ piLast.error = <<>>

-----------------------------------------------------------------------------
(* Claims about the pattern-based DOM blocker (specification SpecBlocking) *)

\* the last operation was an appendChild of the script through the hook
HookedAppendP == domLast.op = "appendChild" /\ domLast.patched

\* script.src is an absolute http(s) url of another host that matches neither
\* the allowed nor the blocked expressions
UnknownSrc ==
    /\ script.src.kind = "url"
    /\ script.src.protocol \in {<<"h", "t", "t", "p", ":">>, Https}
    /\ script.src.hostname # PageHost
    /\ ~matchesPattern(Href(script.src), domConfig.allowedPatterns)
    /\ ~matchesPattern(Href(script.src), domConfig.blockedPatterns)

\* unknown-origin reporting is switched on and has a callback to go to
ReportingEnabled ==
    /\ OrElse(domConfig.config, "reportUnknownScripts", FALSE)
    /\ Has(domConfig.config, "onBlocked")

\* C11: a script with an unknown-origin http(s) src that goes through the
\* check is not blocked and is in the DOM, and however many times the element
\* has gone through the check, onBlocked was called with 'unknown-origin' for
\* it exactly once.
C11_UnknownReportedOnce ==
    (HookedAppendP /\ UnknownSrc /\ ReportingEnabled)
        => /\ ~domLast.ret
           /\ script.inDom
           /\ domLast.unknownReports = 1

\* an unknown-origin script has gone through the check more than once
C11_Witness ==
    /\ HookedAppendP /\ UnknownSrc /\ ReportingEnabled
    /\ domLast.passes >= 2
    /\ domLast.unknownReports = 1
    /\ script.inDom

HostListedAsBlocked ==
    /\ script.src.kind = "url"
    /\ Has(domConfig.config, "blockedHosts")
    /\ \/ /\ PatHost \in domConfig.config.blockedHosts
          /\ script.src.hostname = HostBad
       \/ /\ PatWildHost \in domConfig.config.blockedHosts
          /\ script.src.hostname = HostSubBad

\* C19: a script whose url's host is listed in blockedHosts, exactly or
\* through a wildcard entry, that goes through the check is blocked whatever
\* the other settings are: the check returns true, the script is not
\* inserted, and a configured onBlocked callback is called.
C19_BlockedHostsAlwaysBlocked ==
    (HookedAppendP /\ HostListedAsBlocked)
        => /\ domLast.ret
           /\ ~script.inDom
           /\ Has(domConfig.config, "onBlocked") => domLast.events # <<>>

\* script.src is a url that starts with 'chrome-extension://'
ChromeExtensionSrc ==
    script.src.kind = "url" /\ isChromeExtension(Href(script.src))

\* C23: with blockExtensions true every script whose url starts with
\* 'chrome-extension://' is blocked by checkAndBlockScript whatever the allowed
\* and blocked lists hold: the check returns true, the script is removed, and
\* the callback, where one is configured, is called exactly once, with type
\* 'extension'.  With blockExtensions false such a script that matches no
\* blocked expression is not blocked and onBlocked is not called.
C23_ExtensionBlocking ==
    (HookedAppendP /\ ChromeExtensionSrc)
        => /\ domConfig.config.blockExtensions
                 => /\ domLast.ret
                    /\ ~script.inDom
                    /\ domLast.events =
                          IF Has(domConfig.config, "onBlocked")
                          THEN <<"extension">> ELSE <<>>
           /\ (/\ ~domConfig.config.blockExtensions
               /\ ~matchesPattern(Href(script.src), domConfig.blockedPatterns))
                 => /\ ~domLast.ret
                    /\ script.inDom
                    /\ domLast.events = <<>>

\* an extension script that the allowed expressions cover went through the
\* check of a blocker with blockExtensions and a callback
C23_Witness ==
    /\ HookedAppendP /\ ChromeExtensionSrc
    /\ domConfig.config.blockExtensions
    /\ matchesPattern(Href(script.src), domConfig.allowedPatterns)
    /\ domLast.ret /\ domLast.events = <<"extension">>

\* script.src resolves to a url that matches neither the allowed nor the
\* blocked expressions and that the extension check does not block
NeitherList ==
    /\ script.src.kind \in {"url", "relative"}
    /\ ~matchesPattern(Href(NewURL(script.src)), domConfig.allowedPatterns)
    /\ ~matchesPattern(Href(NewURL(script.src)), domConfig.blockedPatterns)
    /\ ~(/\ domConfig.config.blockExtensions
         /\ isChromeExtension(Href(NewURL(script.src))))

\* C24: a script that matches neither list produces an 'unknown-origin'
\* callback only if reportUnknownScripts is true, the scheme of its url is
\* http or https and its hostname differs from the page's; relative urls,
\* urls of the page's hostname and other schemes produce no callback, and
\* without reportUnknownScripts none is ever made.  In each of these cases
\* the script is not blocked.  (A recognized extension url under
\* blockExtensions does not reach this step.)
C24_UnknownOriginGating ==
    (HookedAppendP /\ NeitherList)
        => /\ ~domLast.ret
           /\ script.inDom
           /\ \A k \in 1..Len(domLast.events) :
                 domLast.events[k] = "unknown-origin"
           /\ domLast.events # <<>>
                 => /\ OrElse(domConfig.config, "reportUnknownScripts", FALSE)
                    /\ NewURL(script.src).protocol
                          \in {<<"h", "t", "t", "p", ":">>, Https}
                    /\ NewURL(script.src).hostname # PageHost

\* a relative src went through the check of a blocker that reports unknown
\* scripts to a callback, and nothing was reported
C24_Witness ==
    /\ HookedAppendP /\ NeitherList /\ ReportingEnabled
    /\ script.src.kind = "relative"
    /\ domLast.events = <<>> /\ script.inDom

-----------------------------------------------------------------------------
(* Claims about the worker-backed eval hook (specification SpecEval) *)

\* no message is on its way to the worker or to the page
Quiescent == channel.toWorker = <<>> /\ channel.toPage = <<>>

\* C16: an intercepted eval whose worker is unreachable, never answers or
\* answers with an error is executed in the end; once nothing is in flight any
\* more, the only eval calls left unexecuted are those the worker resolved to a
\* deny-listed url.  sendMessage posts nothing without a controller and has
\* no timeout, it ignores the 'url' reply of service-worker.ts, and the hook
\* drops a known url on neither list when there is no callback.
C16_FailOpen ==
    Quiescent
        => \A i \in 1..Len(evals) :
              evals[i].state # "executed" => evals[i].state = "suppressed"

-----------------------------------------------------------------------------
(* Claims about the mutation monitor (specification SpecMonitor) *)

\* the last operation was a call of isAllowedMutation in strict mode
StrictCall == monLast.op = "isAllowedMutation" /\ monitor.config.strictMode

\* the script hash of the call is a key of the script registry
Registered ==
    \E k \in 1..Len(monitor.scriptRegistry) :
        monitor.scriptRegistry[k].hash = monLast.hash

\* the registered script's origin is allowed, the target is an element of an
\* allowed type and, for an attribute mutation, the attribute name is an
\* allowed attribute or matches an allowed pattern
Authorized ==
    /\ \E k \in 1..Len(monitor.scriptRegistry) :
          /\ monitor.scriptRegistry[k].hash = monLast.hash
          /\ monitor.scriptRegistry[k].origin \in monitor.allowedOrigins
    /\ monLast.mutation.target.nodeType = "element"
    /\ ToLowerCase(monLast.mutation.target.tagName)
          \in monitor.config.allowedMutations.elementTypes
    /\ monLast.mutation.type = "attributes" =>
          \/ monLast.mutation.attributeName
                \in monitor.config.allowedMutations.attributes
          \/ \E pattern \in monitor.config.allowedMutations.patterns :
                PatternTest(pattern, monLast.mutation.attributeName)

\* C17: in strict mode isAllowedMutation(mutation, scriptHash) returns true
\* exactly when scriptHash is registered, the registered script's origin is
\* allowed, the target's tag is an allowed element type and an attribute
\* mutation names an allowed attribute; an empty or unregistered scriptHash
\* is rejected.
C17_StrictAuthorization ==
    StrictCall
        => /\ monLast.result = Returned(TRUE) <=> Authorized
           /\ (monLast.hash = <<>> \/ ~Registered)
                 => monLast.result = Returned(FALSE)

\* in strict mode a registered script of a whitelisted origin changed an
\* attribute that only the pattern allows, and the call returned true
C17_Witness ==
    /\ StrictCall /\ Registered
    /\ monLast.hash = calculateScriptHash(ScriptCdn)
    /\ monLast.mutation.type = "attributes"
    /\ monLast.mutation.attributeName = AttrDataX
    /\ monLast.result = Returned(TRUE)

-----------------------------------------------------------------------------
(* Claims about the read accessors (specification SpecAccessors) *)

\* C18: when host code adds an entry to, removes one from, or clears the
\* container it got from getScriptRegistry, getContentUpdates, getConfig or
\* getAllBlockedScripts, the configuration, origins, registry and recorded
\* updates of the monitor and the blocked scripts of the engine, and so what
\* a later accessor call returns, stay as they were.  (A step that ends in
\* "hostMutate" and leaves the engine's last call alone is a host change.)
C18_AccessorsReturnCopies ==
    [][(monLast'.op = "hostMutate" /\ last' = last)
          => InternalView' = InternalView]_vars

-----------------------------------------------------------------------------
(* Claims about first-party classification (specification SpecInline) *)

\* the last operation registered an inline script that was added after
\* construction and whose hash is not that of a script of the initial
\* document, on a monitor that does not allow dynamic inline scripts
DynamicInlineRegistered ==
    /\ monLast.op = "registerScript" /\ monLast.dynamic
    /\ monLast.script.src.kind = "none"
    /\ monLast.script.textContent # <<>>
    /\ monLast.hash \notin monitor.initialScripts
    /\ ~monitor.config.allowDynamicInline

\* C20: with allowDynamicInline false, registering an inline script that was
\* not in the document at construction calls onBlocked with type
\* 'dynamic-inline', and in strict mode leaves the script out of the script
\* registry.
C20_DynamicInlineReported ==
    DynamicInlineRegistered
        => /\ \E k \in 1..Len(monLast.events) :
                 monLast.events[k] = "dynamic-inline"
           /\ monitor.config.strictMode
                 => ~RegistryHas(monitor.scriptRegistry, monLast.hash)

-----------------------------------------------------------------------------
(* Weighted content analyzer: public/utils/script-analyzer.js *)

Categories == {"evasion", "covertExecution", "securityBypass", "maliciousIntent"}

\* DEFAULT_ANALYSIS_CONFIG of the weighted analyzer (the thresholds of the
\* config are not read by analyzeScript and are left out)
DEFAULT_WEIGHTED_CONFIG ==
    [checkSuspiciousStrings |-> TRUE,
     weights |-> [evasion |-> 3, covertExecution |-> 3,
                  securityBypass |-> 2, maliciousIntent |-> 2],
     scoringRules |-> [suspiciousStringWeight |-> 1]]

\* severity of the four typed patterns of detectSuspiciousStrings:
\* 'security-bypass', 'dangerous-extension', 'attack-pattern' are high,
\* 'obfuscation' is medium
Severity(p) == IF p = 28 THEN "medium" ELSE "high"

\* the ternary inside the reduce; the last branch is 0.5 and is taken by no
\* pattern of detectSuspiciousStrings, so twice the weight is kept
SeverityWeightTwice(severity) ==
    IF severity = "high" THEN 4 ELSE IF severity = "medium" THEN 2 ELSE 1

\* the loop over categories and patterns, adding config.weights[category]
RECURSIVE WeightedLoop(_, _, _, _, _)
WeightedLoop(content, weights, p, threats, score) ==
    IF p > Len(MALICIOUS_PATTERNS) THEN [threats |-> threats, score |-> score]
    ELSE IF Match(content, p)
         THEN WeightedLoop(content, weights, p + 1,
                           Append(threats, MALICIOUS_PATTERNS[p]),
                           score + weights[MALICIOUS_PATTERNS[p]])
         ELSE WeightedLoop(content, weights, p + 1, threats, score)

\* suspiciousStrings.reduce(...): every match array has length 1 (the
\* patterns are not global and capture nothing)
RECURSIVE SuspiciousSum(_, _)
SuspiciousSum(suspicious, weight) ==
    IF suspicious = {} THEN 0
    ELSE LET p == CHOOSE q \in suspicious : TRUE
         IN  (1 * SeverityWeightTwice(Severity(p)) * weight) \div 2
             + SuspiciousSum(suspicious \ {p}, weight)

analyzeScriptWeighted(content, cfg) ==
    LET loop  == WeightedLoop(content, cfg.weights, 1, <<>>, 0)
        combo == /\ ThreatsInclude(loop.threats, "evasion")
                 /\ \/ ThreatsInclude(loop.threats, "covertExecution")
                    \/ ThreatsInclude(loop.threats, "securityBypass")
        score1 == IF combo
                  THEN loop.score + cfg.scoringRules.suspiciousStringWeight
                  ELSE loop.score
        suspiciousStrings ==
            IF cfg.checkSuspiciousStrings
            THEN detectSuspiciousStrings(content) ELSE {}
        found == Cardinality(suspiciousStrings) > 0
    IN  [threats |-> IF found THEN Append(loop.threats, "suspicious-strings")
                     ELSE loop.threats,
         score   |-> IF found
                     THEN score1 + SuspiciousSum(suspiciousStrings,
                              cfg.scoringRules.suspiciousStringWeight)
                     ELSE score1]

\* texts: nothing, a benign line, one fragment of a category, an evasion with
\* a bypass, a dangerous extension, an obfuscated run, and mixtures
FileWrite  == <<26>>
Obfuscated == <<28>>
AnalyzerTexts ==
    {<<>>, Benign, EvalUse, EvasionBypass, FileWrite, Obfuscated,
     <<1, 29>>, <<19, 26>>}

\* configs: the default one, and AnalysisConfig objects whose numbers differ
WeightChoices ==
    {DEFAULT_WEIGHTED_CONFIG.weights,
     [DEFAULT_WEIGHTED_CONFIG.weights EXCEPT !.covertExecution = -1],
     [c \in Categories |-> 0]}
WeightedConfigs ==
    {[checkSuspiciousStrings |-> b, weights |-> w,
      scoringRules |-> [suspiciousStringWeight |-> s]] :
        b \in BOOLEAN, w \in WeightChoices, s \in {1, 0, 2}}

NotAnalyzed ==
    [op |-> "none", content |-> <<>>, config |-> DEFAULT_WEIGHTED_CONFIG,
     result |-> [threats |-> <<>>, score |-> 0]]

AnalyzeScript(content, cfg) ==
    /\ anLast' = [op |-> "analyzeScript", content |-> content, config |-> cfg,
                  result |-> analyzeScriptWeighted(content, cfg)]
    /\ UNCHANGED beyondAn

InitAnalyzer ==
    /\ EngineIdle /\ CacheIdle /\ DomIdle /\ PiIdle /\ MsgIdle /\ MonIdle
    /\ MmIdle
    /\ RepIdle
    /\ CallIdle
    /\ RegIdle
    /\ FhIdle
    /\ WrIdle
    /\ anLast = NotAnalyzed

NextAnalyzer ==
    \E content \in AnalyzerTexts, cfg \in WeightedConfigs :
        AnalyzeScript(content, cfg)

SpecAnalyzer == InitAnalyzer /\ [][NextAnalyzer]_vars

-----------------------------------------------------------------------------
(* Claims about the weighted analyzer (specification SpecAnalyzer) *)

\* no malicious pattern and no suspicious-string pattern matches the text
NothingMatches(content) ==
    /\ \A p \in 1..Len(MALICIOUS_PATTERNS) : ~Match(content, p)
    /\ \A p \in SuspiciousPatterns : ~Match(content, p)

\* C21: for every text and every analysis config the score of analyzeScript
\* is never negative, and when no malicious pattern and no suspicious-string
\* pattern matches the text the score is 0 and the threat list is empty.
C21_ScoreNeverNegative ==
    anLast.op = "analyzeScript"
        => /\ anLast.result.score >= 0
           /\ NothingMatches(anLast.content)
                 => /\ anLast.result.score = 0
                    /\ anLast.result.threats = <<>>

-----------------------------------------------------------------------------
(* Overlapping cacheResponse calls: utils/cache-manager.ts, called by the
   page and by the background worker on the same named store *)

Writers == {"page", "worker"}

\* a caller with no cacheResponse call in progress, after calls calls
IdleWriter(calls) ==
    [pc |-> "idle", hash |-> <<>>, keys |-> <<>>, calls |-> calls]

\* the cacheResponse calls started so far
CallsStarted == writers["page"].calls + writers["worker"].calls

\* cacheResponse(hash, url) up to its first await: caches.open(cacheName)
CacheResponseOpen(w, hash) ==
    /\ writers[w].pc = "idle"
    /\ CallsStarted < MaxCalls
    /\ writers' = [writers EXCEPT ![w] = [pc |-> "opened", hash |-> hash,
                                          keys |-> <<>>,
                                          calls |-> writers[w].calls + 1]]
    /\ UNCHANGED store
    /\ UNCHANGED beyondWr

\* await cache.put(hash, new Response(...))
CacheResponsePut(w) ==
    /\ writers[w].pc = "opened"
    /\ store' = CachePut(store, CacheEntry(writers[w].hash, UrlN, NoAnalysis))
    /\ writers' = [writers EXCEPT ![w].pc = "put"]
    /\ UNCHANGED beyondWr

\* const keys = await cache.keys()
CacheResponseKeys(w) ==
    /\ writers[w].pc = "put"
    /\ writers' = [writers EXCEPT ![w].pc = "keys",
                                  ![w].keys = CacheKeys(store)]
    /\ UNCHANGED store
    /\ UNCHANGED beyondWr

\* if (keys.length > this.maxSize) await cache.delete(keys[0]), and return
CacheResponseDelete(w) ==
    /\ writers[w].pc = "keys"
    /\ store' = IF Len(writers[w].keys) > maxSize
                THEN CacheDelete(store, writers[w].keys[1])
                ELSE store
    /\ writers' = [writers EXCEPT ![w] = IdleWriter(writers[w].calls)]
    /\ UNCHANGED beyondWr

InitWriters ==
    /\ EngineIdle /\ CacheIdle /\ DomIdle /\ PiIdle /\ MsgIdle /\ MonIdle
    /\ MmIdle
    /\ RepIdle
    /\ CallIdle
    /\ RegIdle
    /\ FhIdle
    /\ AnIdle
    /\ writers = [w \in Writers |-> IdleWriter(0)]

NextWriters ==
    \/ \E w \in Writers, text \in CacheTexts :
          CacheResponseOpen(w, createHash(text))
    \/ \E w \in Writers : CacheResponsePut(w)
    \/ \E w \in Writers : CacheResponseKeys(w)
    \/ \E w \in Writers : CacheResponseDelete(w)

SpecWriters == InitWriters /\ [][NextWriters]_vars

-----------------------------------------------------------------------------
(* Claims about overlapping cache writers (specification SpecWriters) *)

\* no cacheResponse call is in progress
NoCallInProgress == \A w \in Writers : writers[w].pc = "idle"

\* C28: the size bound holds without locking: when cacheResponse calls of the
\* page and of the worker on the same store overlap and interleave at their
\* awaits (open, put, keys, delete), then in every state in which no
\* cacheResponse call is in progress the store has at most maxSize keys.
C28_SizeBoundUnderInterleaving ==
    NoCallInProgress => Len(CacheKeys(store)) <= maxSize

-----------------------------------------------------------------------------
(* The worker's fetch handling: RequestHandler.handleFetch of
   utils/request-handler.ts, its calls interleaving at their awaits *)

\* request.url of the two Request objects the worker is handed
UrlUpperJs == <<"x", ".", "J", "S">>
UrlStyle   == <<"x", ".", "c", "s", "s">>
RequestUrl == <<UrlUpperJs, UrlStyle>>
Requests   == 1..Len(RequestUrl)

\* the content-type header of a response: absent, or one of these
NoHeader       == <<>>
TextJavascript == <<"t", "e", "x", "t", "/", "j", "a", "v", "a", "s", "c", "r", "i", "p", "t">>
TextCss        == <<"t", "e", "x", "t", "/", "c", "s", "s">>
ContentTypes   == {NoHeader, TextJavascript, TextCss}
DotLowerJs     == <<".", "j", "s">>
Javascript     == <<"j", "a", "v", "a", "s", "c", "r", "i", "p", "t">>

\* shouldAnalyzeScript that compares the url as it is written
shouldAnalyzeScriptCaseSensitive(url, contentType) ==
    \/ EndsWith(url, DotLowerJs)
    \/ contentType # NoHeader /\ Includes(contentType, Javascript)

\* shouldAnalyzeScript(request, response)
shouldAnalyzeScript(url, contentType) ==
    \/ EndsWith(ToLowerCase(url), DotLowerJs)
    \/ contentType # NoHeader /\ Includes(contentType, Javascript)

\* cleanupRequest that leaves the mark in place
cleanupRequestKeep(handled, request) == handled

\* cleanupRequest(request): RequestHandler.handledRequests.delete(request)
cleanupRequest(handled, request) == handled \ {request}

\* a Response object: the one fetch resolved with for call i, or its clone
Response(i, isClone, bodyUsed) ==
    [fetch |-> i, isClone |-> isClone, bodyUsed |-> bodyUsed]
NoResponse == Response(0, FALSE, FALSE)

\* a handleFetch call: passThrough when it found its request marked; pc is
\* the await it stands at, or "resolved" / "rejected"; wrote is the cache
\* write it completed and tried the one it started
FetchCall(request, passThrough) ==
    [request |-> request, passThrough |-> passThrough, pc |-> "fetch",
     contentType |-> NoHeader, text |-> <<>>, networkFailed |-> FALSE,
     tried |-> "none", wrote |-> "none", analyzed |-> FALSE,
     result |-> NoResponse, error |-> "none"]

Running(call) == call.pc \notin {"resolved", "rejected"}

\* handleFetch(request) up to its first await: the test of the mark, the
\* mark, and the call of fetch(request)
HandleFetch(request) ==
    /\ Len(fetches) < MaxFetches
    /\ IF request \in handledRequests
       THEN /\ fetches' = Append(fetches, FetchCall(request, TRUE))
            /\ UNCHANGED handledRequests
       ELSE /\ fetches' = Append(fetches, FetchCall(request, FALSE))
            /\ handledRequests' = handledRequests \cup {request}
    /\ UNCHANGED store
    /\ UNCHANGED beyondFh

\* fetch(request) of a call that found the mark settles: the call returns
\* the response or rethrows the error
PassThroughSettles(i, ok) ==
    /\ fetches[i].pc = "fetch" /\ fetches[i].passThrough
    /\ fetches' = [fetches EXCEPT ![i] =
          IF ok
          THEN [@ EXCEPT !.pc = "resolved",
                         !.result = Response(i, FALSE, FALSE)]
          ELSE [@ EXCEPT !.pc = "rejected", !.networkFailed = TRUE,
                         !.error = "network"]]
    /\ UNCHANGED <<handledRequests, store>>
    /\ UNCHANGED beyondFh

\* fetch(request) of a marking call resolves: response.clone() and the call
\* of clonedResponse.text()
FetchResolves(i, contentType) ==
    /\ fetches[i].pc = "fetch" /\ ~fetches[i].passThrough
    /\ fetches' = [fetches EXCEPT ![i].pc = "text",
                                  ![i].contentType = contentType]
    /\ UNCHANGED <<handledRequests, store>>
    /\ UNCHANGED beyondFh

\* fetch(request) or clonedResponse.text() of a marking call rejects: the
\* outer catch rethrows and the finally block removes the mark
NetworkFails(i) ==
    /\ fetches[i].pc \in {"fetch", "text"} /\ ~fetches[i].passThrough
    /\ fetches' = [fetches EXCEPT ![i].pc = "rejected",
                                  ![i].networkFailed = TRUE,
                                  ![i].error = "network"]
    /\ handledRequests' = cleanupRequest(handledRequests, fetches[i].request)
    /\ UNCHANGED store
    /\ UNCHANGED beyondFh

\* clonedResponse.text() resolves: shouldAnalyzeScript, then
\* analyzeAndCacheScript or cacheNonScript up to the await of cacheResponse.
\* When the analyzer throws, the inner catch logs, the response is returned
\* and the finally block removes the mark.
TextResolves(i, text, analyzerThrows) ==
    /\ fetches[i].pc = "text"
    /\ LET call == fetches[i]
           isScript == shouldAnalyzeScript(RequestUrl[call.request],
                                           call.contentType)
       IN  IF isScript /\ analyzerThrows
           THEN /\ fetches' = [fetches EXCEPT ![i] =
                      [@ EXCEPT !.text = text, !.pc = "resolved",
                                !.tried = "analyzeAndCacheScript",
                                !.result = Response(i, FALSE, FALSE)]]
                /\ handledRequests' =
                      cleanupRequest(handledRequests, call.request)
           ELSE /\ fetches' = [fetches EXCEPT ![i] =
                      [@ EXCEPT !.text = text, !.pc = "cache",
                                !.analyzed = isScript,
                                !.tried = IF isScript
                                          THEN "analyzeAndCacheScript"
                                          ELSE "cacheNonScript"]]
                /\ UNCHANGED handledRequests
    /\ UNCHANGED store
    /\ UNCHANGED beyondFh

\* cacheManager.cacheResponse(hash, url, analysis) settles: written, or
\* thrown (the inner catch logs); the response is returned and the finally
\* block removes the mark
CacheSettles(i, ok) ==
    /\ fetches[i].pc = "cache"
    /\ LET call == fetches[i]
           url  == RequestUrl[call.request]
       IN  /\ store' =
                 IF ~ok THEN store
                 ELSE cacheResponse(store, createHash(call.text), url,
                         IF call.analyzed
                         THEN analyzeScript(call.text, DEFAULT_ANALYSIS_CONFIG)
                         ELSE NoAnalysis)
           /\ fetches' = [fetches EXCEPT ![i] =
                 [@ EXCEPT !.pc = "resolved",
                           !.wrote = IF ok THEN call.tried ELSE "none",
                           !.result = Response(i, FALSE, FALSE)]]
           /\ handledRequests' = cleanupRequest(handledRequests, call.request)
    /\ UNCHANGED beyondFh

InitFetch ==
    /\ EngineIdle /\ CacheIdle /\ DomIdle /\ PiIdle /\ MsgIdle /\ MonIdle
    /\ AnIdle /\ WrIdle /\ RegIdle /\ CallIdle /\ RepIdle /\ MmIdle
    /\ handledRequests = {}
    /\ fetches = <<>>

NextFetch ==
    \/ \E request \in Requests : HandleFetch(request)
    \/ \E i \in 1..Len(fetches), ok \in BOOLEAN : PassThroughSettles(i, ok)
    \/ \E i \in 1..Len(fetches), contentType \in ContentTypes :
          FetchResolves(i, contentType)
    \/ \E i \in 1..Len(fetches) : NetworkFails(i)
    \/ \E i \in 1..Len(fetches), text \in {Benign, EvalUse},
          analyzerThrows \in BOOLEAN : TextResolves(i, text, analyzerThrows)
    \/ \E i \in 1..Len(fetches), ok \in BOOLEAN : CacheSettles(i, ok)

SpecFetch == InitFetch /\ [][NextFetch]_vars

-----------------------------------------------------------------------------
(* Claims about the worker's fetch handling (specification SpecFetch) *)

\* the calls that are running for a request
RunningFor(request) ==
    {i \in 1..Len(fetches) :
        fetches[i].request = request /\ Running(fetches[i])}

\* C29: in-flight de-duplication: in any interleaving of handleFetch calls, a
\* call that found its Request marked does a plain pass-through fetch, with
\* no analysis and no cache write; the mark a call set is removed when that
\* call settles, resolved or rejected, so a Request is marked exactly while
\* the call that marked it is running, no Request stays marked when no call
\* for it is running, and at most one call at a time analyzes a Request.
C29_InFlightDeduplication ==
    /\ \A i \in 1..Len(fetches) :
          fetches[i].passThrough
              => /\ ~fetches[i].analyzed
                 /\ fetches[i].tried = "none" /\ fetches[i].wrote = "none"
    /\ \A request \in Requests :
          /\ request \in handledRequests
                <=> \E i \in RunningFor(request) : ~fetches[i].passThrough
          /\ Cardinality({i \in RunningFor(request) :
                             ~fetches[i].passThrough}) <= 1

\* a request was handled twice at once: the first call marked it, analyzed
\* the body and has resolved, the second passed through and is still waiting
C29_Witness ==
    /\ Len(fetches) = 2
    /\ fetches[1].request = fetches[2].request
    /\ fetches[1].pc = "resolved" /\ fetches[1].analyzed
    /\ fetches[2].passThrough /\ fetches[2].pc = "fetch"
    /\ handledRequests = {}

\* the url of the call's request ends in '.js' in some letter case, or the
\* response's content-type contains 'javascript'
ScriptResponse(call) ==
    \/ RequestUrl[call.request] = UrlUpperJs
    \/ call.contentType = TextJavascript

-----------------------------------------------------------------------------
(* The getUrl round trip with the worker of service-worker.ts: a page under
   a controller, every request answered with the 'url' message *)

InitRoundTrip == InitEval /\ channel.controller

NextRoundTrip ==
    \/ \E code \in EvalTexts : EvalCall(code)
    \/ WorkerAnswer("url")
    \/ PageReceive

\* the worker answers every request it is sent and every message posted to
\* the page is delivered
SpecRoundTrip ==
    /\ InitRoundTrip /\ [][NextRoundTrip]_vars
    /\ WF_vars(WorkerAnswer("url")) /\ WF_vars(PageReceive)

-----------------------------------------------------------------------------
(* Claims about the getUrl round trip (specification SpecRoundTrip) *)

\* C31: for every request {type: 'getUrl', hash} of the page, when the worker
\* answers as the protocol prescribes ({type: 'url', url, analysis?}, url
\* null for a hash it has not cached), the promise of sendMessage is settled
\* in the end with that answer, and the hook goes on with response.url.
C31_GetUrlRoundTrip ==
    \A i \in 1..MaxEvals :
        (Len(evals) >= i) ~> (Len(evals) >= i /\ evals[i].state # "pending")

-----------------------------------------------------------------------------
(* Markup assigned to innerHTML: ScriptBlocker.setupInnerHTMLBlocking of
   script-blocking.ts *)

\* a script element of parsed markup: its place in the markup and its src
MarkupScript(pos, src) ==
    [pos |-> pos, src |-> src, textContent |-> "", checked |-> FALSE,
     inDom |-> TRUE]

\* the src values of the script tags markup is written with
MarkupSrcs ==
    {Url(Https, HostBad), Url(Https, HostOk), Url(ChromeExtension, HostExt)}

\* markup as the sequence of the src values of its script tags
Markups == UNION {[1..n -> MarkupSrcs] : n \in 0..MaxMarkup}

\* parser.parseFromString(html, 'text/html').getElementsByTagName('script')
ParseScripts(html) == [k \in 1..Len(html) |-> MarkupScript(k, html[k])]

\* the elements of a live collection without the one at index i
WithoutIndex(scripts, i) ==
    [k \in 1..(Len(scripts) - 1) |->
        IF k < i THEN scripts[k] ELSE scripts[k + 1]]

\* for (let i = 0; i < scripts.length; i++): scripts is the live collection
\* of the parsed document, which loses a script when the check removes it
RECURSIVE InnerHTMLLoop(_, _, _, _, _)
InnerHTMLLoop(blocker, scripts, i, seen, events) ==
    IF i > Len(scripts) THEN [seen |-> seen, events |-> events]
    ELSE LET c == checkAndBlockScriptP(blocker, scripts[i])
         IN  InnerHTMLLoop(blocker,
                           IF c.ret THEN WithoutIndex(scripts, i) ELSE scripts,
                           i + 1, seen \cup {scripts[i].pos},
                           events \o c.events)

\* what an assignment to innerHTML did: the markup, the places of the
\* scripts that went through the check, the callbacks, and the script
\* elements of the element's content afterwards
InnerHTMLCall(op, patched, html, seen, events, content) ==
    [op |-> op, patched |-> patched, html |-> html, seen |-> seen,
     events |-> events, content |-> content]

\* ScriptBlocker.setupInnerHTMLBlocking()
SetupInnerHTMLBlocking ==
    /\ ~isPatched
    /\ isPatched' = TRUE
    /\ domLast' = InnerHTMLCall("setupBlocking", FALSE, <<>>, {}, <<>>,
                                domLast.content)
    /\ UNCHANGED <<domConfig, script>>
    /\ UNCHANGED beyondDom

\* element.innerHTML = html: the setter of the hook when installed, the
\* original setter otherwise; originalSet.call(this, html) parses the string
\* it is given
SetInnerHTML(html) ==
    /\ LET loop == InnerHTMLLoop(domConfig, ParseScripts(html), 1, {}, <<>>)
       IN  domLast' =
              IF isPatched
              THEN InnerHTMLCall("setInnerHTML", TRUE, html, loop.seen,
                                 loop.events, ParseScripts(html))
              ELSE InnerHTMLCall("setInnerHTML", FALSE, html, {}, <<>>,
                                 ParseScripts(html))
    /\ UNCHANGED <<domConfig, isPatched, script>>
    /\ UNCHANGED beyondDom

\* the blockers whose setter is installed: those with a callback
InnerHTMLConfigs ==
    {c \in BlockingConfigs :
        Has(c, "onBlocked") /\ ~c.reportUnknownScripts}

InitInnerHTML ==
    /\ domConfig \in {setPatternsFromConfig(c) : c \in InnerHTMLConfigs}
    /\ isPatched = FALSE
    /\ script = <<>>
    /\ domLast = InnerHTMLCall("none", FALSE, <<>>, {}, <<>>, <<>>)
    /\ EngineIdle /\ CacheIdle /\ PiIdle /\ MsgIdle /\ MonIdle
    /\ AnIdle /\ WrIdle /\ FhIdle /\ RegIdle /\ CallIdle /\ RepIdle /\ MmIdle

NextInnerHTML ==
    \/ SetupInnerHTMLBlocking
    \/ \E html \in Markups : SetInnerHTML(html)

SpecInnerHTML == InitInnerHTML /\ [][NextInnerHTML]_vars

-----------------------------------------------------------------------------
(* Claims about markup injection (specification SpecInnerHTML) *)

\* checkAndBlockScript blocks a script element with this src
BlockedSrc(src) ==
    checkAndBlockScriptP(domConfig, MarkupScript(1, src)).ret

\* the last operation assigned, through the hook, markup with a script that
\* the check blocks
BlockedMarkupAssigned ==
    /\ domLast.op = "setInnerHTML" /\ domLast.patched
    /\ \E k \in 1..Len(domLast.html) : BlockedSrc(domLast.html[k])

\* C32: when markup assigned to innerHTML holds a script element that
\* checkAndBlockScript blocks (a deny-listed url or a blocked extension),
\* every script of the markup is checked before the assignment is committed,
\* and the blocked script is not part of the element's content afterwards.
C32_MarkupInjection ==
    BlockedMarkupAssigned
        => /\ domLast.seen = 1..Len(domLast.html)
           /\ \A k \in 1..Len(domLast.content) :
                 ~BlockedSrc(domLast.content[k].src)

-----------------------------------------------------------------------------
(* The script registry as scripts are added to the document: the observer of
   monitorScriptAdditions hands every added script to registerScript
   (specification SpecRegistry) *)

HostTrustedCdn ==
    <<"t", "r", "u", "s", "t", "e", "d", "-", "c", "d", "n", ".", "c", "o",
      "m">>
PathScript1 == <<"/", "s", "c", "r", "i", "p", "t", "1", ".", "j", "s">>
PathScript2 == <<"/", "s", "c", "r", "i", "p", "t", "2", ".", "j", "s">>

\* https://trusted-cdn.com/script1.js and script2.js, and script1.js with
\* text between its tags
TrustedUrl(path) ==
    [kind |-> "url", protocol |-> Https, hostname |-> HostTrustedCdn,
     pathname |-> path]
Script1     == MonScript(TrustedUrl(PathScript1), <<>>)
Script2     == MonScript(TrustedUrl(PathScript2), <<>>)
Script1Text == MonScript(TrustedUrl(PathScript1), <<"x">>)

\* the scripts added to the document
ObservedScripts ==
    {Script1, Script2, Script1Text, ScriptCdn, ScriptEvil, ScriptInline}

\* registerScript goes past its first line and new URL(script.src) succeeds
Registrable(s) == s.src.kind = "url"

\* monitorScriptAdditions(): a script node is added and the observer calls
\* registerScript(node)
ObserveScript(s) ==
    /\ Len(observed) < MaxObserved
    /\ monitor' = registerScript(monitor, s)
    /\ observed' = Append(observed, s)
    /\ monLast' = MonCall("registerScript", Returned(FALSE),
                          calculateScriptHash(s), NoMutation)
    /\ UNCHANGED held
    /\ UNCHANGED beyondReg

InitRegistry ==
    /\ \E c \in MonitorConfigs, doc \in Documents :
          /\ monitor = initializeScriptRegistry(NewMonitor(c), doc, 1)
          /\ observed = doc
    /\ held = NoHandle
    /\ monLast = MonCall("none", Returned(FALSE), <<>>, NoMutation)
    /\ EngineIdle /\ CacheIdle /\ DomIdle /\ PiIdle /\ MsgIdle
    /\ AnIdle /\ WrIdle /\ FhIdle /\ CallIdle /\ RepIdle /\ MmIdle

NextRegistry == \E s \in ObservedScripts : ObserveScript(s)

SpecRegistry == InitRegistry /\ [][NextRegistry]_vars

\* the distinct scripts registered so far
RegisteredScripts ==
    {observed[i] : i \in {k \in 1..Len(observed) : Registrable(observed[k])}}

\* C33: the registry holds one entry for each distinct (src, type, text)
\* registered so far, so no two distinct scripts share a registry key and
\* registering one never replaces the entry of another
C33_OneEntryPerScript ==
    Len(monitor.scriptRegistry) = Cardinality(RegisteredScripts)

\* the position in the run at which a script was first registered
FirstObserved(s) ==
    CHOOSE i \in 1..Len(observed) :
        /\ observed[i] = s
        /\ \A k \in 1..(i - 1) : observed[k] # s

\* the registry entry kept under the script's hash
EntryOf(s) == RegistryGet(monitor.scriptRegistry, calculateScriptHash(s))

\* C34: among scripts with different registry keys, loadOrder orders the
\* entries as the scripts were first registered, however often a script is
\* observed again afterwards
C34_LoadOrderOfFirstObservation ==
    \A a, b \in RegisteredScripts :
        (/\ calculateScriptHash(a) # calculateScriptHash(b)
         /\ FirstObserved(a) < FirstObserved(b))
            => EntryOf(a).loadOrder < EntryOf(b).loadOrder

-----------------------------------------------------------------------------
(* Both analyzers called with the same texts and configs: analyzeScript of
   public/utils/script-analyzer.js and analyzeScript of the TypeScript
   analyzer the decision engine imports (specification SpecScore) *)

\* analyzeScript(content, config) of the TypeScript analyzer
AnalyzeScriptTs(content, cfg) ==
    /\ LET r == analyzeScript(content, cfg)
       IN  anLast' = [op |-> "analyzeScriptTs", content |-> content,
                      config |-> cfg,
                      result |-> [threats |-> r.threats, score |-> r.score]]
    /\ UNCHANGED beyondAn

NextScore ==
    \/ \E content \in AnalyzerTexts, cfg \in WeightedConfigs :
          AnalyzeScript(content, cfg)
    \/ \E content \in AnalyzerTexts, cfg \in WeightedConfigs :
          AnalyzeScriptTs(content, cfg)

SpecScore == InitAnalyzer /\ [][NextScore]_vars

\* the number of patterns of a category that match the text
MatchingOf(content, category) ==
    Cardinality({p \in 1..Len(MALICIOUS_PATTERNS) :
                    MALICIOUS_PATTERNS[p] = category /\ Match(content, p)})

\* the suspicious-string groups of a severity that match the text
GroupsOf(content, severity) ==
    Cardinality({p \in SuspiciousPatterns :
                    Match(content, p) /\ Severity(p) = severity})

\* the score as the sum of its three parts
ComposedScore(content, cfg) ==
    LET w == cfg.weights
        s == cfg.scoringRules.suspiciousStringWeight
        combination ==
            /\ MatchingOf(content, "evasion") > 0
            /\ MatchingOf(content, "covertExecution")
                  + MatchingOf(content, "securityBypass") > 0
    IN  MatchingOf(content, "evasion") * w.evasion
        + MatchingOf(content, "covertExecution") * w.covertExecution
        + MatchingOf(content, "securityBypass") * w.securityBypass
        + MatchingOf(content, "maliciousIntent") * w.maliciousIntent
        + (IF combination THEN s ELSE 0)
        + (IF cfg.checkSuspiciousStrings
           THEN GroupsOf(content, "high") * 2 * s
                + GroupsOf(content, "medium") * 1 * s
           ELSE 0)

\* C35: the score analyzeScript returns is the configured category weight
\* for every matching pattern, plus the combination bonus when evasion
\* comes with covert execution or a security bypass, plus, when
\* suspicious-string checking is on, severity weight times the configured
\* suspicious-string weight for every matching group.
C35_ScoreComposition ==
    anLast.op # "none"
        => anLast.result.score = ComposedScore(anLast.content, anLast.config)

-----------------------------------------------------------------------------
(* The hooks of utils/script-interceptor.ts calling the asynchronous
   shouldBlockScript of utils/script-blocker.ts: a call runs to its first
   await, the cache lookup, and is resumed when the lookup completes
   (specification SpecHooks) *)

\* the identifiers the hooks pass as url
IdFunction == <<"F", "u", "n", "c", "t", "i", "o", "n">>
IdInline   == <<"i", "n", "l", "i", "n", "e">>

\* shouldBlockScript reaches await checkCachedResponse: the url is on neither
\* list
Suspends(cfg, url) ==
    /\ ~SomePatternIncluded(url, OrElse(cfg, "blackListedScripts", {}))
    /\ ~SomePatternIncluded(url, OrElse(cfg, "whiteListedScripts", {}))

\* shouldBlockScript(url, content) up to its first await: the call as it
\* stands when control returns to the caller, and the map it leaves
shouldBlockScriptStart(cfg, map, st, url, content) ==
    IF Suspends(cfg, url)
    THEN [call |-> [url |-> url, content |-> content, pc |-> "lookup",
                    blocked |-> FALSE, removed |-> FALSE],
          map  |-> map]
    ELSE LET r == shouldBlockScript(cfg, st, url, content)
         IN  [call |-> [url |-> url, content |-> content, pc |-> "done",
                        blocked |-> r.blocked, removed |-> FALSE],
              map  |-> MapSet(map, url, r.set)]

\* the rest of shouldBlockScript, run when the cache lookup completes
shouldBlockScriptResume(cfg, map, st, call) ==
    LET r == CacheThenAnalysis(cfg, st, call.url, call.content)
    IN  [call |-> [call EXCEPT !.pc = "done", !.blocked = r.blocked],
         map  |-> MapSet(map, call.url, r.set)]

\* the Function hook of utils/script-interceptor.ts: the engine's result is
\* a Promise, so the hook returns function() { return undefined; }
NewFunction(body) ==
    /\ functions = <<>>
    /\ Len(inflight) < MaxInflight
    /\ LET s == shouldBlockScriptStart(config, blockedScripts, store,
                                       IdFunction, body)
       IN  /\ inflight' = Append(inflight, s.call)
           /\ blockedScripts' = s.map
    /\ functions' = Append(functions, [body |-> body, built |-> "no-op",
                                       calls |-> 0, ran |-> FALSE])
    /\ UNCHANGED beyondCall

\* the Function hook that checks on execution: originalFunction.apply builds
\* the function, and a wrapper around it is returned
NewFunctionWrapped(body) ==
    /\ functions = <<>>
    /\ functions' = Append(functions, [body |-> body, built |-> "wrapper",
                                       calls |-> 0, ran |-> FALSE])
    /\ UNCHANGED <<blockedScripts, inflight>>
    /\ UNCHANGED beyondCall

\* host code calls the function it got: the no-op returns undefined; the
\* wrapper starts shouldBlockScript('Function', body), whose then-callback
\* throws inside the promise chain when the body is blocked, and goes on to
\* fn.apply(this, execArgs)
CallFunction(i) ==
    /\ functions[i].calls = 0
    /\ IF functions[i].built = "no-op"
       THEN /\ functions' = [functions EXCEPT ![i].calls = 1]
            /\ UNCHANGED <<blockedScripts, inflight>>
       ELSE /\ Len(inflight) < MaxInflight
            /\ LET s == shouldBlockScriptStart(config, blockedScripts, store,
                                               IdFunction, functions[i].body)
               IN  /\ inflight' = Append(inflight, s.call)
                   /\ blockedScripts' = s.map
            /\ functions' = [functions EXCEPT ![i].calls = 1,
                                              ![i].ran = TRUE]
    /\ UNCHANGED beyondCall

\* interceptScriptElement(script, scriptBlocker) for an inline script, up to
\* its await
InterceptScriptElement(content) ==
    /\ Len(inflight) < MaxInflight
    /\ LET s == shouldBlockScriptStart(config, blockedScripts, store,
                                       IdInline, content)
       IN  /\ inflight' = Append(inflight, s.call)
           /\ blockedScripts' = s.map
    /\ UNCHANGED functions
    /\ UNCHANGED beyondCall

\* the cache lookup of a suspended call completes: shouldBlockScript runs to
\* its end, and interceptScriptElement, when it is the caller, removes a
\* blocked script
LookupCompletes(i) ==
    /\ inflight[i].pc = "lookup"
    /\ LET r == shouldBlockScriptResume(config, blockedScripts, store,
                                        inflight[i])
       IN  /\ inflight' =
                 [inflight EXCEPT
                    ![i] = [r.call EXCEPT
                              !.removed = r.call.blocked
                                             /\ r.call.url = IdInline]]
           /\ blockedScripts' = r.map
    /\ UNCHANGED functions
    /\ UNCHANGED beyondCall

\* the bodies and inline texts the hooks see
HookTexts == {Benign, EvalUse}

\* the engines the hooks are installed over
HookConfigs ==
    {NewScriptBlocker(c) : c \in
        { [blackListedScripts |-> b, whiteListedScripts |-> {},
           analysisConfig |-> DEFAULT_ANALYSIS_CONFIG] :
          b \in {{}, {<<"F", "u", "n", "c">>}} }}

InitHooks ==
    /\ config \in HookConfigs
    /\ blockedScripts = <<>>
    /\ store = <<>>
    /\ last = NoCall
    /\ decided = {}
    /\ inflight = <<>>
    /\ functions = <<>>
    /\ CacheIdle /\ DomIdle /\ PiIdle /\ MsgIdle /\ MonIdle
    /\ AnIdle /\ WrIdle /\ FhIdle /\ RegIdle /\ RepIdle /\ MmIdle

NextHooks ==
    \/ \E body \in HookTexts : NewFunction(body)
    \/ \E body \in HookTexts : NewFunctionWrapped(body)
    \/ \E i \in 1..Len(functions) : CallFunction(i)
    \/ \E content \in HookTexts : InterceptScriptElement(content)
    \/ \E i \in 1..Len(inflight) : LookupCompletes(i)

SpecHooks == InitHooks /\ [][NextHooks]_vars

\* the engine's verdict for a Function body
BodyBlocked(body) ==
    shouldBlockScript(config, store, IdFunction, body).blocked

\* C36: a function got from the Function constructor and then called has run
\* its body exactly when the engine's verdict for the body is not blocked.
C36_FunctionBodyRunsIffAllowed ==
    \A i \in 1..Len(functions) :
        functions[i].calls > 0
            => (functions[i].ran <=> ~BodyBlocked(functions[i].body))

\* the calls for the inline identifier, in the order they were issued
InlineCalls == {i \in 1..Len(inflight) : inflight[i].url = IdInline}

\* C38: once every overlapping call for one identifier has resolved, the map
\* entry of the identifier is the record of the call issued last.
C38_NoStaleOverwrite ==
    (/\ InlineCalls # {}
     /\ \A i \in InlineCalls : inflight[i].pc = "done")
        => LET lastCall == inflight[CHOOSE i \in InlineCalls :
                                       \A k \in InlineCalls : k <= i]
           IN  blockedScripts[IdInline]
                  = CacheThenAnalysis(config, store, IdInline,
                                      lastCall.content).set

-----------------------------------------------------------------------------
(* Claims about outstanding sendMessage requests (specification SpecEval) *)

\* the url the worker's reply to the request of an eval call carries
OwnUrl(e) ==
    LET data == getCachedResponse(store, e.hash)
    IN  IF data.found THEN data.url ELSE NullUrl

\* what became of an eval call
Outcome(e) == [state |-> e.state, events |-> e.events]

-----------------------------------------------------------------------------
(* Claims about re-checking an element whose src has changed (specification
   SpecBlocking) *)

\* C39: when a script with an unknown-origin src has gone through the check
\* of a blocker that reports unknown scripts to a callback, that url has been
\* reported as unknown-origin, also when the element was reported before
\* under another url.
C39_NewSrcReported ==
    (HookedAppendP /\ UnknownSrc /\ ReportingEnabled)
        => Href(NewURL(script.src)) \in reportedUrls

-----------------------------------------------------------------------------
(* The MutationMonitor class of mutation-monitor.ts: its observer field and
   the MutationObservers it has created (specification SpecMutationMonitor) *)

\* the default of allowedMutations in the constructor, and another value
MmDefaultAllowed == <<"div", "span", "p", "a", "img">>
MmCustomAllowed  == <<"div">>

\* new MutationMonitor(config): observer is null (0); observers holds, for
\* every MutationObserver created so far, whether it is connected
NewMutationMonitor(cfg) ==
    [config |-> [strictMode |-> OrElse(cfg, "strictMode", TRUE),
                 allowedMutations |->
                     OrElse(cfg, "allowedMutations", MmDefaultAllowed),
                 onBlocked |-> OrElse(cfg, "onBlocked", "undefined")],
     observer |-> 0,
     observers |-> <<>>]

\* updateConfig(newConfig)
updateConfigMm(m, newConfig) ==
    [m EXCEPT !.config =
        [Spread(m.config, newConfig) EXCEPT
            !.allowedMutations =
                OrElse(newConfig, "allowedMutations",
                       m.config.allowedMutations)]]

\* stopMonitoring()
stopMonitoring(m) ==
    IF m.observer # 0
    THEN [m EXCEPT !.observers[m.observer] = FALSE, !.observer = 0]
    ELSE m

\* startMonitoring that does not stop first
startMonitoringKeep(m) ==
    [m EXCEPT !.observers = Append(m.observers, TRUE),
              !.observer = Len(m.observers) + 1]

\* startMonitoring(): stopMonitoring(), then a new observer that observes
\* document.documentElement
startMonitoring(m) ==
    LET clean == stopMonitoring(m)
    IN  [clean EXCEPT !.observers = Append(clean.observers, TRUE),
                      !.observer = Len(clean.observers) + 1]

\* the config objects the class is built and updated with
MmConfigs ==
    { [f \in s \cup a \cup o |->
          CASE f = "strictMode" -> FALSE
            [] f = "allowedMutations" -> MmCustomAllowed
            [] f = "onBlocked" -> "cb"] :
      s \in SUBSET {"strictMode"}, a \in SUBSET {"allowedMutations"},
      o \in SUBSET {"onBlocked"} }

\* the last call and whether an observer was held when it was made
MmCall(op, held0) == [op |-> op, monitoring |-> held0]

StartMonitoringMm ==
    /\ Len(mutationMonitor.observers) < MaxObservers
    /\ mutationMonitor' = startMonitoring(mutationMonitor)
    /\ mmLast' = MmCall("startMonitoring", mutationMonitor.observer # 0)
    /\ UNCHANGED beyondMm

StopMonitoringMm ==
    /\ mutationMonitor' = stopMonitoring(mutationMonitor)
    /\ mmLast' = MmCall("stopMonitoring", mutationMonitor.observer # 0)
    /\ UNCHANGED beyondMm

UpdateConfigMm(newConfig) ==
    /\ mutationMonitor' = updateConfigMm(mutationMonitor, newConfig)
    /\ mmLast' = MmCall("updateConfig", mutationMonitor.observer # 0)
    /\ UNCHANGED beyondMm

InitMutationMonitor ==
    /\ mutationMonitor \in {NewMutationMonitor(c) : c \in MmConfigs}
    /\ mmLast = MmCall("none", FALSE)
    /\ EngineIdle /\ CacheIdle /\ DomIdle /\ PiIdle /\ MsgIdle /\ MonIdle
    /\ AnIdle /\ WrIdle /\ FhIdle /\ RegIdle /\ CallIdle /\ RepIdle

NextMutationMonitor ==
    \/ StartMonitoringMm
    \/ StopMonitoringMm
    \/ \E newConfig \in MmConfigs : UpdateConfigMm(newConfig)

SpecMutationMonitor == InitMutationMonitor /\ [][NextMutationMonitor]_vars

\* the observers created by the monitor that are connected
Connected ==
    {i \in 1..Len(mutationMonitor.observers) : mutationMonitor.observers[i]}

\* C40: after any sequence of startMonitoring and stopMonitoring calls at
\* most one observer the monitor created is connected, the one its observer
\* field holds; none is connected when the last call was stopMonitoring, and
\* after startMonitoring the connected one is the newest.
C40_ObserverLifecycle ==
    /\ Cardinality(Connected) <= 1
    /\ Connected = IF mutationMonitor.observer = 0 THEN {}
                   ELSE {mutationMonitor.observer}
    /\ mmLast.op = "stopMonitoring" => Connected = {}
    /\ mmLast.op = "startMonitoring"
          => Connected = {Len(mutationMonitor.observers)}

\* startMonitoring was called again while the observer of an earlier call
\* was connected
C40_Witness ==
    /\ mmLast.op = "startMonitoring" /\ mmLast.monitoring
    /\ Len(mutationMonitor.observers) >= 2
    /\ Connected = {Len(mutationMonitor.observers)}

=============================================================================
